---- MODULE Spec2Model ----
(***************************************************************************)
(* Model of the goc-notion-rag ingestion pipeline                          *)
(* (processDocumentsPipeline: producer, bounded channel, embedding worker  *)
(* pool, progress reporter) and of the rate-limit retry loops of           *)
(* Embedder.EmbedText and Searcher.generateAnswer.                         *)
(***************************************************************************)
EXTENDS Integers, Sequences, FiniteSets, TLC

\* ------------------------------------------------------------------ bounds
MaxWorkers == 2     \* largest --workers value explored
MaxDocs    == 2     \* source documents the content source lists in one run
MaxCalls   == 2     \* standalone remote calls explored by SpecRetry
MaxTextLen == 5     \* longest chunkText input, in bytes
MaxSize    == 3     \* largest chunkText size argument
MaxTopK    == 3     \* largest topK of a Store.Search call
MaxAdds    == 3     \* Store.AddDocument calls explored by SpecAdd
MaxPages   == 2     \* pages searchAllPages returns to FetchAllPages
MaxEmbeds  == 2     \* EmbedText calls per worker explored by SpecPool
MaxQuestion == 5    \* characters typed into the question of the search UI

\* ------------------------------------------------------- program constants
maxRetries        == 3      \* gemini.go:40, search.go:118
chunkSize         == 1000   \* loader.go:15
MinEmbedLen       == 50     \* part_001:183
MinContentLen     == 10     \* loader.go:69
QueueFactor       == 2      \* part_001:116

\* ------------------------------------------------------------ error strings
\* err.Error() texts, as sequences of characters.
Msg429        == <<"4", "2", "9">>
MsgRateLimit  == <<"R", "a", "t", "e", " ", "L", "i", "m", "i", "t">>
MsgQuota      == <<"Q", "U", "O", "T", "A">>
MsgExhausted  == <<"R", "e", "s", "o", "u", "r", "c", "e", " ",
                   "e", "x", "h", "a", "u", "s", "t", "e", "d">>
MsgRefused    == <<"r", "e", "f", "u", "s", "e", "d">>
MsgRateDash   == <<"r", "a", "t", "e", "-", "l", "i", "m", "i", "t">>

ErrMsgs == {Msg429, MsgRateLimit, MsgQuota, MsgExhausted, MsgRefused, MsgRateDash}

UpperToLower == [c \in {"R", "L", "Q", "U", "O", "T", "A"} |->
                   CASE c = "R" -> "r" [] c = "L" -> "l" [] c = "Q" -> "q"
                     [] c = "U" -> "u" [] c = "O" -> "o" [] c = "T" -> "t"
                     [] c = "A" -> "a"]

\* strings.ToLower
ToLower(s) == [i \in 1..Len(s) |->
                 IF s[i] \in DOMAIN UpperToLower THEN UpperToLower[s[i]] ELSE s[i]]

\* strings.Contains
Contains(s, sub) ==
    \E i \in 0..(Len(s) - Len(sub)) :
        \A j \in 1..Len(sub) : s[i + j] = sub[j]

MarkRateLimit == <<"r", "a", "t", "e", " ", "l", "i", "m", "i", "t">>
MarkQuota     == <<"q", "u", "o", "t", "a">>
MarkExhausted == <<"r", "e", "s", "o", "u", "r", "c", "e", " ",
                   "e", "x", "h", "a", "u", "s", "t", "e", "d">>

\* Variant: the markers are looked for without lower-casing the message.
isRateLimitCaseSensitive(errStr) ==
    \/ Contains(errStr, Msg429)
    \/ Contains(errStr, MarkRateLimit)
    \/ Contains(errStr, MarkQuota)
    \/ Contains(errStr, MarkExhausted)

\* isRateLimit := strings.Contains(errStr, "429") || ... (gemini.go:87-90)
isRateLimit(errStr) ==
    \/ Contains(errStr, Msg429)
    \/ Contains(ToLower(errStr), MarkRateLimit)
    \/ Contains(ToLower(errStr), MarkQuota)
    \/ Contains(ToLower(errStr), MarkExhausted)

\* What one remote attempt (EmbedContent / GenerateContent) can answer: a
\* response carrying n values / text parts, a response whose payload is nil
\* (resp.Embedding == nil, no candidate content), or an error.
VecDim == 3
RespOk(n)  == [kind |-> "ok", n |-> n, msg |-> <<>>]
RespNil    == [kind |-> "nil", n |-> 0, msg |-> <<>>]
RespErr(m) == [kind |-> "err", n |-> 0, msg |-> m]
Responses  == {RespOk(0), RespOk(VecDim), RespNil} \cup {RespErr(m) : m \in ErrMsgs}

\* The answers explored for the pipeline's embed calls: one of each kind the
\* loop tells apart (the message only matters through isRateLimit).
EmbedResponses == {RespOk(0), RespOk(VecDim), RespNil,
                   RespErr(Msg429), RespErr(MsgRefused)}

IsTransient(r) == r.kind = "err" /\ isRateLimit(r.msg)
IsFatal(r)     == r.kind = "err" /\ ~isRateLimit(r.msg)

\* Variant: every error is retried, whatever its classification.
ShouldRetryAnyError(r, attempt) == attempt < maxRetries - 1

\* if isRateLimit && attempt < maxRetries-1 { Printf; time.Sleep; continue }
ShouldRetry(r, attempt) == isRateLimit(r.msg) /\ attempt < maxRetries - 1

\* Return values (value, error) of the two remote callers.  wrap names the
\* fmt.Errorf prefix put around the cause; n is the size of the value.
Fns == {"EmbedText", "generateAnswer"}
Success(n)       == [ok |-> TRUE,  wrap |-> "none", n |-> n, cause |-> <<>>]
Failure(w, m)    == [ok |-> FALSE, wrap |-> w, n |-> 0, cause |-> m]
NoResult         == [ok |-> FALSE, wrap |-> "pending", n |-> 0, cause |-> <<>>]

\* The body of one loop iteration after the remote call has answered r
\* (gemini.go:66-99, search.go:123-160): "retry" or the value returned.
AttemptReturn(fn, r) ==
    IF fn = "EmbedText"
    THEN CASE r.kind = "ok"  -> Success(r.n)
           [] r.kind = "nil" -> Failure("emptyResponse", <<>>)
           [] OTHER          -> Failure("embedFailed", r.msg)
    ELSE CASE r.kind = "ok"  -> Success(IF r.n = 0 THEN 1 ELSE r.n)
           [] r.kind = "nil" -> Success(1)
           [] OTHER          -> Failure("none", r.msg)

\* The statement after the loop (gemini.go:102, search.go:163).
AfterLoopReturn(lastErr) == Failure("maxRetriesExceeded", lastErr)

\* --------------------------------------------------------------- variables
VARIABLES
    workerCount,        \* the workerCount argument
    coord,              \* processDocumentsPipeline: [pc, i, ret, final]
    docChan,            \* buffered channel contents
    chanClosed,         \* close(docChan) has happened
    processedCount, successCount, errorCount, skippedCount,
    reporter,           \* progress goroutine: "none" | "select" | "exited"
    ticker,             \* progressTicker: [stopped]
    embedders,          \* number of embedders created
    workers,            \* worker goroutines: [pc, doc, attempt, vec]
    producer,           \* producer goroutine
    producerErr,        \* the captured producerErr variable
    stored,             \* records of the vector store collection
    sent,               \* history: ids sent on docChan, in order
    received,           \* history: ids received from docChan, in order
    call,               \* a standalone EmbedText / generateAnswer call
    callsDone,
    chunkCall,          \* a chunkText call: its arguments and its result
    searchCall,         \* a Store.Search call: arguments, store answer, result
    addCall,            \* Store.AddDocument calls on a collection
    batch,              \* a Loader.FetchAllPages call
    pool,               \* the embedders and the workers' EmbedText calls
    ingest,             \* two ingestion runs into one collection
    ui,                 \* the interactive search UI (ui.Model and its runtime)
    snap,               \* the progress reporter's reading of the counters
    ctx                 \* the ctx handed to processDocumentsPipeline

pipeVars == <<workerCount, coord, docChan, chanClosed, processedCount,
              successCount, errorCount, skippedCount, reporter, ticker,
              embedders, workers, producer, producerErr, stored, sent,
              received>>
restVars == <<ingest, ui, snap, ctx>>
fnVars   == <<chunkCall, searchCall, addCall, batch, pool, restVars>>
callVars == <<call, callsDone, fnVars>>
vars == <<pipeVars, callVars>>

\* ------------------------------------------------- standalone remote calls
IdleCall == [fn |-> "none", pc |-> "idle", attempt |-> 0, log |-> <<>>,
             delays |-> 0, notes |-> <<>>, lastErr |-> <<>>,
             result |-> NoResult]

\* Entry of EmbedText / generateAnswer: attempt := 0.
CallStart(fn) ==
    /\ call.pc \in {"idle", "returned"}
    /\ callsDone < MaxCalls
    /\ call' = [IdleCall EXCEPT !.fn = fn, !.pc = "call"]
    /\ callsDone' = callsDone + 1
    /\ UNCHANGED <<pipeVars, fnVars>>

\* Variant: the retry notification prints attempt instead of attempt+1.
CallAttemptZeroBased ==
    /\ call.pc = "call"
    /\ \E r \in Responses :
         LET logged == [call EXCEPT !.log = Append(@, r)] IN
         IF r.kind = "err" /\ ShouldRetry(r, call.attempt)
         THEN call' = [logged EXCEPT !.pc = "sleep", !.lastErr = r.msg,
                                     !.notes = Append(@, call.attempt)]
         ELSE call' = [logged EXCEPT !.pc = "returned",
                          !.lastErr = IF r.kind = "err" THEN r.msg ELSE @,
                          !.result = AttemptReturn(call.fn, r)]
    /\ UNCHANGED <<callsDone, pipeVars, fnVars>>

\* One remote attempt and the rest of the loop body up to Sleep or return.
CallAttempt ==
    /\ call.pc = "call"
    /\ \E r \in Responses :
         LET logged == [call EXCEPT !.log = Append(@, r)] IN
         IF r.kind = "err" /\ ShouldRetry(r, call.attempt)
         THEN call' = [logged EXCEPT !.pc = "sleep", !.lastErr = r.msg,
                                     !.notes = Append(@, call.attempt + 1)]
         ELSE call' = [logged EXCEPT !.pc = "returned",
                          !.lastErr = IF r.kind = "err" THEN r.msg ELSE @,
                          !.result = AttemptReturn(call.fn, r)]
    /\ UNCHANGED <<callsDone, pipeVars, fnVars>>

\* time.Sleep(retryDelay); continue; attempt++; loop condition.
CallSleep ==
    /\ call.pc = "sleep"
    /\ LET next == call.attempt + 1 IN
       IF next < maxRetries
       THEN call' = [call EXCEPT !.pc = "call", !.attempt = next,
                                 !.delays = @ + 1]
       ELSE call' = [call EXCEPT !.pc = "returned", !.attempt = next,
                                 !.delays = @ + 1,
                                 !.result = AfterLoopReturn(call.lastErr)]
    /\ UNCHANGED <<callsDone, pipeVars, fnVars>>

\* ------------------------------------------------------------- chunkText
Min(a, b) == IF a < b THEN a ELSE b

\* A Go string is a sequence of bytes.  The bytes explored: 'a', the two
\* bytes of U+00E9 (0xC3 0xA9) and 0xFF, which occurs in no UTF-8 encoding.
TextBytes == {97, 195, 169, 255}
Texts == UNION {[1..n -> TextBytes] : n \in 0..MaxTextLen}

RuneError == 65533      \* U+FFFD
IsCont(b) == b >= 128 /\ b <= 191

\* The rune at byte i of s and the bytes it takes, as range-over-string
\* and []rune(s) decode it: an ill-formed byte yields U+FFFD, width 1.
\* (Four-byte forms are not explored.)
DecodeAt(s, i) ==
    LET b == s[i] IN
    IF b < 128 THEN [r |-> b, w |-> 1]
    ELSE IF b >= 194 /\ b <= 223 /\ i + 1 <= Len(s) /\ IsCont(s[i + 1])
    THEN [r |-> (b - 192) * 64 + (s[i + 1] - 128), w |-> 2]
    ELSE IF /\ b >= 224 /\ b <= 239 /\ i + 2 <= Len(s)
            /\ IsCont(s[i + 1]) /\ IsCont(s[i + 2])
            /\ (b = 224 => s[i + 1] >= 160)
            /\ (b = 237 => s[i + 1] <= 159)
    THEN [r |-> (b - 224) * 4096 + (s[i + 1] - 128) * 64 + (s[i + 2] - 128),
          w |-> 3]
    ELSE [r |-> RuneError, w |-> 1]

RECURSIVE RunesFrom(_, _)
RunesFrom(s, i) ==
    IF i > Len(s) THEN <<>>
    ELSE LET d == DecodeAt(s, i) IN <<d.r>> \o RunesFrom(s, i + d.w)

\* []rune(text)
Runes(s) == RunesFrom(s, 1)

\* utf8.ValidString
RECURSIVE ValidFrom(_, _)
ValidFrom(s, i) ==
    IF i > Len(s) THEN TRUE
    ELSE LET d == DecodeAt(s, i) IN
         /\ ~(d.r = RuneError /\ d.w = 1)
         /\ ValidFrom(s, i + d.w)

ValidString(s) == ValidFrom(s, 1)

\* The UTF-8 encoding of one rune (up to three bytes).
EncodeRune(r) ==
    IF r < 128 THEN <<r>>
    ELSE IF r < 2048 THEN <<192 + (r \div 64), 128 + (r % 64)>>
    ELSE <<224 + (r \div 4096), 128 + ((r \div 64) % 64), 128 + (r % 64)>>

\* string(runes)
RECURSIVE String(_)
String(runes) ==
    IF runes = <<>> THEN <<>>
    ELSE EncodeRune(Head(runes)) \o String(Tail(runes))

\* for i := 0; i < len(runes); i += size { ... append(chunks, string(runes[i:end])) }
RECURSIVE chunkLoop(_, _, _, _)
chunkLoop(runes, i, size, chunks) ==
    IF i < Len(runes)
    THEN LET end == IF i + size > Len(runes) THEN Len(runes) ELSE i + size
         IN  chunkLoop(runes, i + size, size,
                       Append(chunks, String(SubSeq(runes, i + 1, end))))
    ELSE chunks

\* Variant: the final, shorter chunk is not appended.
chunkTextDropTail(text, size) ==
    IF Len(text) <= size
    THEN <<text>>
    ELSE LET all == chunkLoop(Runes(text), 0, size, <<>>)
         IN  IF Len(Runes(text)) % size = 0 THEN all
             ELSE SubSeq(all, 1, Len(all) - 1)

\* Variant: the early return accepts one byte more than size.
chunkTextLooseBound(text, size) ==
    IF Len(text) <= size + 1
    THEN <<text>>
    ELSE chunkLoop(Runes(text), 0, size, <<>>)

\* Variant: the rune loop ends with one more, empty chunk.
chunkTextTrailingEmpty(text, size) ==
    IF Len(text) <= size
    THEN <<text>>
    ELSE Append(chunkLoop(Runes(text), 0, size, <<>>), <<>>)

\* chunkText(text, size): len(text) is the length in bytes.
chunkText(text, size) ==
    IF Len(text) <= size
    THEN <<text>>
    ELSE chunkLoop(Runes(text), 0, size, <<>>)

IdleChunkCall == [text |-> <<>>, size |-> 1, pc |-> "idle", chunks |-> <<>>]

\* chunks := chunkText(content, size)
ChunkTextCall ==
    /\ chunkCall.pc = "call"
    /\ chunkCall' = [chunkCall EXCEPT
                       !.pc = "returned",
                       !.chunks = chunkText(chunkCall.text, chunkCall.size)]
    /\ UNCHANGED <<pipeVars, call, callsDone, searchCall, addCall, batch, pool,
                   restVars>>

\* ------------------------------------------------------- the vector store
\* A vector is modelled by its length; NilVec is the nil slice.
NilVec  == 0 - 1
Vectors == {NilVec, 0, VecDim - 1, VecDim}
AddIds  == 1..2

\* Variant: collection.Add keeps the record that has the same id.
AddDocumentAppend(store, doc, addOk) ==
    IF doc.vec = NilVec \/ doc.vec = 0
    THEN [store |-> store, err |-> "noVector", called |-> FALSE]
    ELSE IF addOk
    THEN [store |-> store \cup {doc}, err |-> "nil", called |-> TRUE]
    ELSE [store |-> store, err |-> "addFailed", called |-> TRUE]

\* Store.AddDocument(ctx, doc) on a collection holding store: the vector
\* check, then collection.Add, which answers addOk and replaces a record
\* that has the same id.  called: collection.Add was invoked.
AddDocument(store, doc, addOk) ==
    IF doc.vec = NilVec \/ doc.vec = 0
    THEN [store |-> store, err |-> "noVector", called |-> FALSE]
    ELSE IF addOk
    THEN [store |-> {r \in store : r.id # doc.id} \cup {doc},
          err |-> "nil", called |-> TRUE]
    ELSE [store |-> store, err |-> "addFailed", called |-> TRUE]

IdleAddCall == [store |-> {}, n |-> 0, doc |-> [id |-> 0, vec |-> NilVec],
                before |-> {}, err |-> "nil", called |-> FALSE]

\* One AddDocument call on the collection left by the calls before it.
AddDocumentCall ==
    /\ addCall.n < MaxAdds
    /\ \E id \in AddIds, vec \in Vectors, addOk \in BOOLEAN :
         LET doc == [id |-> id, vec |-> vec]
             ret == AddDocument(addCall.store, doc, addOk)
         IN  addCall' = [store |-> ret.store, n |-> addCall.n + 1,
                         doc |-> doc, before |-> addCall.store,
                         err |-> ret.err, called |-> ret.called]
    /\ UNCHANGED <<pipeVars, call, callsDone, chunkCall, searchCall, batch, pool,
                   restVars>>

\* Similarities in thousandths; result.Similarity < 0.7 compares with 700.
Threshold == 700
Sims == {0, 699, 700, 701, 1000}

Descending(q) == \A i \in 1..(Len(q) - 1) : q[i] >= q[i + 1]

\* What collection.QueryEmbedding can answer for topK = k: an error, or up
\* to k neighbours by decreasing similarity.
Neighbours(k) ==
    {[i \in 1..Len(q) |-> [id |-> i, sim |-> q[i]]] :
        q \in {p \in UNION {[1..n -> Sims] : n \in 0..k} : Descending(p)}}

StoreAnswers(k) ==
    {[err |-> TRUE, results |-> <<>>]}
        \cup {[err |-> FALSE, results |-> r] : r \in Neighbours(k)}

\* Variant: each kept document is put in front of the ones kept before.
RECURSIVE filterLoopPrepend(_, _, _)
filterLoopPrepend(results, i, documents) ==
    IF i > Len(results) THEN documents
    ELSE IF results[i].sim < Threshold
    THEN filterLoopPrepend(results, i + 1, documents)
    ELSE filterLoopPrepend(results, i + 1,
                           <<[id |-> results[i].id]>> \o documents)

\* for _, result := range results { if result.Similarity < 0.7 { continue }
\* ... documents = append(documents, doc) }
RECURSIVE filterLoop(_, _, _)
filterLoop(results, i, documents) ==
    IF i > Len(results) THEN documents
    ELSE IF results[i].sim < Threshold
    THEN filterLoop(results, i + 1, documents)
    ELSE filterLoop(results, i + 1, Append(documents, [id |-> results[i].id]))

\* Variant: the filter discards similarities up to and including 0.7.
SearchStrictAbove(queryVector, topK, answer) ==
    IF queryVector = NilVec \/ queryVector = 0
    THEN [docs |-> <<>>, nilDocs |-> TRUE, err |-> "emptyQuery",
          queried |-> FALSE]
    ELSE IF answer.err
    THEN [docs |-> <<>>, nilDocs |-> TRUE, err |-> "searchFailed",
          queried |-> TRUE]
    ELSE [docs |-> SelectSeq([i \in 1..Len(answer.results) |->
                                [id |-> answer.results[i].id]],
                             LAMBDA d : answer.results[d.id].sim > Threshold),
          nilDocs |-> FALSE, err |-> "nil", queried |-> TRUE]

\* Variant: only a nil query vector is rejected.
SearchNilOnly(queryVector, topK, answer) ==
    IF queryVector = NilVec
    THEN [docs |-> <<>>, nilDocs |-> TRUE, err |-> "emptyQuery",
          queried |-> FALSE]
    ELSE IF answer.err
    THEN [docs |-> <<>>, nilDocs |-> TRUE, err |-> "searchFailed",
          queried |-> TRUE]
    ELSE [docs |-> filterLoop(answer.results, 1, <<>>),
          nilDocs |-> FALSE, err |-> "nil", queried |-> TRUE]

\* Store.Search(ctx, queryVector, topK), the store answering answer.
Search(queryVector, topK, answer) ==
    IF queryVector = NilVec \/ queryVector = 0
    THEN [docs |-> <<>>, nilDocs |-> TRUE, err |-> "emptyQuery",
          queried |-> FALSE]
    ELSE IF answer.err
    THEN [docs |-> <<>>, nilDocs |-> TRUE, err |-> "searchFailed",
          queried |-> TRUE]
    ELSE [docs |-> filterLoop(answer.results, 1, <<>>),
          nilDocs |-> FALSE, err |-> "nil", queried |-> TRUE]

NoSearchResult == [docs |-> <<>>, nilDocs |-> TRUE, err |-> "pending",
                   queried |-> FALSE]
IdleSearchCall == [queryVector |-> NilVec, topK |-> 1,
                   answer |-> [err |-> TRUE, results |-> <<>>],
                   pc |-> "idle", ret |-> NoSearchResult]

\* documents, err := s.store.Search(s.ctx, queryVector, topK)
SearchCall ==
    /\ searchCall.pc = "call"
    /\ searchCall' = [searchCall EXCEPT
                        !.pc = "returned",
                        !.ret = Search(searchCall.queryVector,
                                       searchCall.topK, searchCall.answer)]
    /\ UNCHANGED <<pipeVars, call, callsDone, chunkCall, addCall, batch, pool,
                   restVars>>

\* ------------------------------------------------------------ the pipeline

\* Source documents the content source can serve: rendered content measured
\* in code points (runes) and in bytes.
DocContents == { [runes |-> 5,    bytes |-> 5],
                 [runes |-> 400,  bytes |-> 1200],
                 [runes |-> 1020, bytes |-> 3060] }

\* chunkText, on lengths: the code-point lengths of the chunks it returns.
chunkLens(runes, bytes, size) ==
    IF bytes <= size
    THEN <<runes>>
    ELSE [k \in 1..((runes + size - 1) \div size) |->
            Min(k * size, runes) - (k - 1) * size]

\* The chunk-documents of one source document (ID "<page>-chunk-<idx>").
ChunkDoc(page, idx, len) == [page |-> page, idx |-> idx, len |-> len]
DocId(d) == <<d.page, d.idx>>
NoDoc == [page |-> 0, idx |-> 0, len |-> 0]

\* Variant: the chunk-documents of a document are numbered from the last.
chunkDocsReversed(page, c) ==
    LET lens == chunkLens(c.runes, c.bytes, chunkSize)
    IN  [k \in 1..Len(lens) |->
            ChunkDoc(page, Len(lens) - k, lens[Len(lens) + 1 - k])]

chunkDocs(page, c) ==
    LET lens == chunkLens(c.runes, c.bytes, chunkSize)
    IN  [k \in 1..Len(lens) |-> ChunkDoc(page, k - 1, lens[k])]

\* Variant: the channel buffers one document when there is no worker.
CapacityAtLeastOne == IF workerCount = 0 THEN 1 ELSE workerCount * QueueFactor

\* Variant: the channel buffers three documents per worker.
CapacityTriple == workerCount * 3

\* cap(docChan) = workerCount*2
Capacity == workerCount * QueueFactor

WorkerIds == 0..(workerCount - 1)
IdleWorker == [pc |-> "unborn", doc |-> NoDoc, attempt |-> 0, vec |-> 0]
IdleProducer == [pc |-> "unborn", docs |-> 0, pageLeft |-> 0,
                 hasMore |-> FALSE, buf |-> <<>>, ret |-> "nil"]
NoStats == [processed |-> 0, success |-> 0, errors |-> 0, skipped |-> 0]

\* ---------------------------------------------------- Loader.FetchAllPages
\* Page ids, as strings; the third one ends like a chunk id.
PageIds == { <<"p">>, <<"q">>,
             <<"p", "-", "c", "h", "u", "n", "k", "-", "0">> }

\* What fetchPageContent can answer for a page: an error, or content of
\* some length in code points and bytes.
FetchErr == [ok |-> FALSE, runes |-> 0, bytes |-> 0]
FetchOk(r, b) == [ok |-> TRUE, runes |-> r, bytes |-> b]
FetchOutcomes ==
    { FetchErr, FetchOk(0, 0), FetchOk(9, 9), FetchOk(9, 27), FetchOk(10, 10),
      FetchOk(400, 1200), FetchOk(1000, 1000), FetchOk(1001, 1001),
      FetchOk(2500, 2500) }

\* What searchAllPages can return: an error, or up to MaxPages pages.
Listings ==
    {[err |-> TRUE, pages |-> <<>>]} \cup
    {[err |-> FALSE, pages |-> ps] :
        ps \in {q \in UNION {[1..n -> [id : PageIds, fetch : FetchOutcomes]] :
                                n \in 0..MaxPages} :
                   \A i, j \in 1..Len(q) : q[i].id = q[j].id => i = j}}

Digits == <<"0", "1", "2", "3", "4", "5", "6", "7", "8", "9">>

\* %d
RECURSIVE Itoa(_)
Itoa(n) ==
    IF n < 10 THEN <<Digits[n + 1]>>
    ELSE Itoa(n \div 10) \o <<Digits[(n % 10) + 1]>>

\* Variant: every chunk of a page gets index 0 in its id.
FormatIdNoIndex(pageID, idx) ==
    pageID \o <<"-", "c", "h", "u", "n", "k", "-">> \o Itoa(0)

\* fmt.Sprintf("%s-chunk-%d", pageID, idx)
FormatId(pageID, idx) ==
    pageID \o <<"-", "c", "h", "u", "n", "k", "-">> \o Itoa(idx)

\* Variant: content is chunked whatever its length.
pageDocumentsNoMinimum(page) ==
    IF ~page.fetch.ok THEN <<>>
    ELSE LET lens == chunkLens(page.fetch.runes, page.fetch.bytes, chunkSize)
         IN  [k \in 1..Len(lens) |->
                [id |-> FormatId(page.id, k - 1), parent |-> page.id,
                 len |-> lens[k]]]

\* One iteration of the page loop: the documents it appends.  A fetch error
\* and content shorter than 10 code points both continue with nothing.
pageDocuments(page) ==
    IF ~page.fetch.ok THEN <<>>
    ELSE IF page.fetch.runes < MinContentLen THEN <<>>
    ELSE LET lens == chunkLens(page.fetch.runes, page.fetch.bytes, chunkSize)
         IN  [k \in 1..Len(lens) |->
                [id |-> FormatId(page.id, k - 1), parent |-> page.id,
                 len |-> lens[k]]]

IdleBatch == [pc |-> "idle", listing |-> [err |-> TRUE, pages |-> <<>>],
              pages |-> <<>>, i |-> 0, allDocuments |-> <<>>, err |-> "nil"]

BatchUnchanged ==
    UNCHANGED <<pipeVars, call, callsDone, chunkCall, searchCall, addCall,
                pool, restVars>>

\* pages, err := l.searchAllPages(ctx); on error return it (wrapped).
FetchAllPagesSearch ==
    /\ batch.pc = "search"
    /\ batch' = IF batch.listing.err
                THEN [batch EXCEPT !.pc = "returned", !.err = "searchErr"]
                ELSE [batch EXCEPT !.pc = "loop", !.pages = batch.listing.pages]
    /\ BatchUnchanged

\* for i, page := range pages { ... }: one iteration.
FetchAllPagesPage ==
    /\ batch.pc = "loop"
    /\ batch.i < Len(batch.pages)
    /\ batch' = [batch EXCEPT
                   !.i = @ + 1,
                   !.allDocuments = @ \o pageDocuments(batch.pages[batch.i + 1])]
    /\ BatchUnchanged

\* return allDocuments, nil
FetchAllPagesReturn ==
    /\ batch.pc = "loop"
    /\ batch.i = Len(batch.pages)
    /\ batch' = [batch EXCEPT !.pc = "returned"]
    /\ BatchUnchanged

\* ------------------------------------------- the embedders of the workers
TaskTypeUnspecified == "TaskTypeUnspecified"
TaskTypeRetrievalDocument == "TaskTypeRetrievalDocument"

\* Variant: every worker takes the first embedder.
EmbedderShared(workerID) == 0

\* embedder := embedders[workerID]
EmbedderOf(workerID) == workerID

IdlePool == [emb |-> <<>>, w |-> <<>>, intents |-> {}]
IdlePoolWorker == [pc |-> "unborn", e |-> 0, saved |-> TaskTypeUnspecified,
                   attempt |-> 0, calls |-> 0]

PoolUnchanged ==
    UNCHANGED <<pipeVars, call, callsDone, chunkCall, searchCall, addCall,
                batch, restVars>>

\* go func(workerID int) { embedder := embedders[workerID]; ... }(i)
PoolWorkerStart(w) ==
    /\ pool.w[w].pc = "unborn"
    /\ pool' = [pool EXCEPT !.w[w].pc = "idle", !.w[w].e = EmbedderOf(w)]
    /\ PoolUnchanged

\* EmbedText(embeddingText, "RETRIEVAL_DOCUMENT") entered:
\* originalTaskType := e.model.TaskType
EmbedTextEnter(w) ==
    /\ pool.w[w].pc = "idle"
    /\ pool.w[w].calls < MaxEmbeds
    /\ pool' = [pool EXCEPT !.w[w].pc = "set",
                            !.w[w].calls = @ + 1,
                            !.w[w].attempt = 0,
                            !.w[w].saved = pool.emb[pool.w[w].e].taskType]
    /\ PoolUnchanged

\* e.model.TaskType = taskTypeEnum
EmbedTextSetTaskType(w) ==
    /\ pool.w[w].pc = "set"
    /\ pool' = [pool EXCEPT
                  !.w[w].pc = "call",
                  !.emb[pool.w[w].e].taskType = TaskTypeRetrievalDocument]
    /\ PoolUnchanged

\* e.model.EmbedContent(e.ctx, genai.Text(text)): the request carries the
\* model's current task type; then return, or the retry delay.
EmbedContent(w) ==
    /\ pool.w[w].pc = "call"
    /\ \E r \in {RespOk(VecDim), RespErr(Msg429), RespErr(MsgRefused)} :
         pool' = [pool EXCEPT
                    !.intents = @ \cup {pool.emb[pool.w[w].e].taskType},
                    !.w[w].pc = IF r.kind = "err"
                                   /\ ShouldRetry(r, pool.w[w].attempt)
                                THEN "sleep" ELSE "restore"]
    /\ PoolUnchanged

\* time.Sleep(retryDelay); continue
EmbedTextSleep(w) ==
    /\ pool.w[w].pc = "sleep"
    /\ pool' = [pool EXCEPT !.w[w].pc = "call", !.w[w].attempt = @ + 1]
    /\ PoolUnchanged

\* defer: e.model.TaskType = originalTaskType
EmbedTextRestore(w) ==
    /\ pool.w[w].pc = "restore"
    /\ pool' = [pool EXCEPT
                  !.w[w].pc = "idle",
                  !.emb[pool.w[w].e].taskType = pool.w[w].saved]
    /\ PoolUnchanged

\* --------------------------------------------- what runs beside the above
\* ctx := context.Background() in main: never done.
CtxBackground == "background"

IdleIngest == [pc |-> "idle", docs |-> <<>>, run |-> 0, i |-> 0, store |-> {},
               after1 |-> {}, added2 |-> {}]

NoModel == [question |-> <<>>, answer |-> "", err |-> "nil",
            loading |-> FALSE, quitting |-> FALSE, width |-> 0, height |-> 0]
IdleUi == [pc |-> "idle", m |-> NoModel, was |-> NoModel, msg |-> "none",
           cmd |-> "nil", inflight |-> 0]

IdleSnap == [pc |-> "select", processed |-> 0, success |-> 0, errors |-> 0,
             skipped |-> 0, shown |-> FALSE]

\* None of them is being explored.
InitRest ==
    /\ ingest = IdleIngest
    /\ ui = IdleUi
    /\ snap = IdleSnap
    /\ ctx = CtxBackground

\* ------------------------------------------------ ingesting the same twice
\* Source pages whose content does not change between the runs: one below
\* the minimum, one with a 20-code-point tail, one of two full-size chunks.
IngestContents == {FetchOk(9, 27), FetchOk(1020, 3060), FetchOk(1500, 1500)}
IngestPageIds ==
    <<(<<"p">>), (<<"p", "-", "c", "h", "u", "n", "k", "-", "0">>), (<<"q">>),
      (<<"r">>)>>
IngestListings ==
    UNION {{[k \in 1..n |-> [id |-> IngestPageIds[k], fetch |-> f[k]]] :
               f \in [1..n -> IngestContents]} : n \in 0..MaxPages}

\* The documents FetchAllPages returns for these pages.
RECURSIVE fetchAll(_)
fetchAll(pages) ==
    IF pages = <<>> THEN <<>>
    ELSE pageDocuments(Head(pages)) \o fetchAll(Tail(pages))

Ids(store) == {r.id : r \in store}

IngestUnchanged ==
    UNCHANGED <<pipeVars, call, callsDone, chunkCall, searchCall, addCall,
                batch, pool, ui, snap, ctx>>

\* What a worker does with one document: skip it when short, embed it, and
\* on success store it with AddDocument.
IngestDoc ==
    /\ ingest.pc = "run"
    /\ ingest.i < Len(ingest.docs)
    /\ LET d == ingest.docs[ingest.i + 1]
       IN  IF d.len < MinEmbedLen
           THEN ingest' = [ingest EXCEPT !.i = @ + 1]
           ELSE \E embedOk, addOk \in BOOLEAN :
                  IF ~embedOk
                  THEN ingest' = [ingest EXCEPT !.i = @ + 1]
                  ELSE LET doc == [id |-> d.id, vec |-> VecDim,
                                   len |-> d.len, run |-> ingest.run]
                           ret == AddDocument(ingest.store, doc, addOk)
                       IN  ingest' = [ingest EXCEPT
                                        !.i = @ + 1,
                                        !.store = ret.store,
                                        !.added2 =
                                            IF ingest.run = 2 /\ ret.err = "nil"
                                            THEN @ \cup {d.id} ELSE @]
    /\ IngestUnchanged

\* The run is over; the program is started again with --reload on the same
\* database (NewStore loads it, nothing clears it) and the same pages.
IngestAgain ==
    /\ ingest.pc = "run"
    /\ ingest.i = Len(ingest.docs)
    /\ ingest.run = 1
    /\ ingest' = [ingest EXCEPT !.run = 2, !.i = 0,
                                !.after1 = Ids(ingest.store)]
    /\ IngestUnchanged

\* ------------------------------------------------------- the search UI
\* Keys by msg.String(): the two quit keys, enter, backspace, and keys that
\* carry a character.
Chars == {"e", "x", "i", "t", " "}
Keys  == {"ctrl+c", "q", "enter", "backspace"} \cup Chars

\* strings.TrimSpace
RECURSIVE TrimLeft(_)
TrimLeft(q) ==
    IF q # <<>> /\ Head(q) = " " THEN TrimLeft(Tail(q)) ELSE q

RECURSIVE TrimRight(_)
TrimRight(q) ==
    IF q # <<>> /\ q[Len(q)] = " "
    THEN TrimRight(SubSeq(q, 1, Len(q) - 1)) ELSE q

TrimSpace(q) == TrimRight(TrimLeft(q))

Exit == <<"e", "x", "i", "t">>

\* Variant: keys are handled while a search is running.
UpdateKeyWhileLoading(m, key) ==
    IF key \in {"ctrl+c", "q"}
    THEN [m |-> [m EXCEPT !.quitting = TRUE], cmd |-> "quit"]
    ELSE IF key = "enter"
    THEN IF TrimSpace(m.question) = <<>>
         THEN [m |-> m, cmd |-> "nil"]
         ELSE IF TrimSpace(m.question) = Exit
         THEN [m |-> [m EXCEPT !.quitting = TRUE], cmd |-> "quit"]
         ELSE [m |-> [m EXCEPT !.loading = TRUE, !.answer = "",
                                !.err = "nil"],
               cmd |-> "search"]
    ELSE IF key = "backspace"
    THEN [m |-> [m EXCEPT !.question =
                     IF Len(@) > 0 THEN SubSeq(@, 1, Len(@) - 1) ELSE @],
          cmd |-> "nil"]
    ELSE [m |-> [m EXCEPT !.question = Append(@, key)], cmd |-> "nil"]

\* Model.Update on a tea.KeyMsg: the model and the command it returns.
UpdateKey(m, key) ==
    IF m.loading
    THEN [m |-> m, cmd |-> "nil"]
    ELSE IF key \in {"ctrl+c", "q"}
    THEN [m |-> [m EXCEPT !.quitting = TRUE], cmd |-> "quit"]
    ELSE IF key = "enter"
    THEN IF TrimSpace(m.question) = <<>>
         THEN [m |-> m, cmd |-> "nil"]
         ELSE IF TrimSpace(m.question) = Exit
         THEN [m |-> [m EXCEPT !.quitting = TRUE], cmd |-> "quit"]
         ELSE [m |-> [m EXCEPT !.loading = TRUE, !.answer = "",
                                !.err = "nil"],
               cmd |-> "search"]
    ELSE IF key = "backspace"
    THEN [m |-> [m EXCEPT !.question =
                     IF Len(@) > 0 THEN SubSeq(@, 1, Len(@) - 1) ELSE @],
          cmd |-> "nil"]
    ELSE [m |-> [m EXCEPT !.question = Append(@, key)], cmd |-> "nil"]

\* What Searcher.Search hands to the search command: an answer or an error.
SearchResults == {[answer |-> "answer", err |-> "nil"],
                  [answer |-> "", err |-> "searchErr"]}

\* Model.Update on a searchResultMsg.
UpdateResult(m, msg) ==
    [m EXCEPT !.loading = FALSE,
              !.err = IF msg.err # "nil" THEN msg.err ELSE @,
              !.answer = IF msg.err # "nil" THEN @ ELSE msg.answer,
              !.question = <<>>]

UiUnchanged ==
    UNCHANGED <<pipeVars, call, callsDone, chunkCall, searchCall, addCall,
                batch, pool, ingest, snap, ctx>>

\* A key arrives; tea.Quit ends the program, a search command starts
\* Searcher.Search beside the event loop.
UiKey ==
    /\ ui.pc = "running"
    /\ \E key \in Keys :
         /\ (key \in Chars /\ ~ui.m.loading)
               => Len(ui.m.question) < MaxQuestion
         /\ LET r == UpdateKey(ui.m, key)
            IN  ui' = [pc |-> IF r.cmd = "quit" THEN "quit" ELSE "running",
                       m |-> r.m, was |-> ui.m, msg |-> key, cmd |-> r.cmd,
                       inflight |-> IF r.cmd = "search"
                                    THEN ui.inflight + 1 ELSE ui.inflight]
    /\ UiUnchanged

\* A search command returns and its searchResultMsg is handled.
UiSearchResult ==
    /\ ui.pc = "running"
    /\ ui.inflight > 0
    /\ \E msg \in SearchResults :
         ui' = [ui EXCEPT !.m = UpdateResult(ui.m, msg), !.was = ui.m,
                          !.msg = "searchResultMsg", !.cmd = "nil",
                          !.inflight = @ - 1]
    /\ UiUnchanged

\* A tea.WindowSizeMsg is handled.
UiWindowSize ==
    /\ ui.pc = "running"
    /\ ui' = [ui EXCEPT !.m = [ui.m EXCEPT !.width = 80, !.height = 24],
                        !.was = ui.m, !.msg = "WindowSizeMsg",
                        !.cmd = "nil"]
    /\ UiUnchanged

\* State on entry of the embedder loop of processDocumentsPipeline: channel,
\* counters, ticker and progress goroutine exist (part_001:116-148).
InitPipe ==
    /\ workerCount \in 0..MaxWorkers
    /\ coord = [pc |-> "newEmbedder", i |-> 0, ret |-> "none", final |-> NoStats]
    /\ docChan = <<>>
    /\ chanClosed = FALSE
    /\ processedCount = 0 /\ successCount = 0
    /\ errorCount = 0 /\ skippedCount = 0
    /\ reporter = "select"
    /\ ticker = [stopped |-> FALSE]
    /\ embedders = 0
    /\ workers = [w \in WorkerIds |-> IdleWorker]
    /\ producer = IdleProducer
    /\ producerErr = "nil"
    /\ stored = {}
    /\ sent = <<>>
    /\ received = <<>>

InitCall == call = IdleCall /\ callsDone = 0

\* No chunkText, Search or AddDocument call is being explored.
InitFn ==
    /\ chunkCall = IdleChunkCall
    /\ searchCall = IdleSearchCall
    /\ addCall = IdleAddCall
    /\ batch = IdleBatch
    /\ pool = IdlePool
    /\ InitRest

Init == InitPipe /\ InitCall /\ InitFn

\* --- coordinator ---------------------------------------------------------
\* for i := 0; i < workerCount; i++ { embedding.NewEmbedder(...) }
\* On error: close the embedders made so far and return; the deferred
\* progressTicker.Stop() runs, progressDone is not signalled.
CoordNewEmbedder ==
    /\ coord.pc = "newEmbedder"
    /\ IF coord.i < workerCount
       THEN \E ok \in BOOLEAN :
              IF ok
              THEN /\ embedders' = embedders + 1
                   /\ coord' = [coord EXCEPT !.i = @ + 1]
                   /\ UNCHANGED ticker
              ELSE /\ embedders' = 0
                   /\ coord' = [coord EXCEPT !.pc = "returned", !.ret = "initErr"]
                   /\ ticker' = [ticker EXCEPT !.stopped = TRUE]
       ELSE /\ coord' = [coord EXCEPT !.pc = "spawn", !.i = 0]
            /\ UNCHANGED <<embedders, ticker>>
    /\ UNCHANGED <<workerCount, docChan, chanClosed, processedCount,
                   successCount, errorCount, skippedCount, reporter,
                   workers, producer, producerErr, stored, sent, received,
                   callVars>>

\* for i := 0; i < workerCount; i++ { wg.Add(1); go func(workerID) {...}(i) }
CoordSpawn ==
    /\ coord.pc = "spawn"
    /\ IF coord.i < workerCount
       THEN /\ workers' = [workers EXCEPT ![coord.i].pc = "recv"]
            /\ coord' = [coord EXCEPT !.i = @ + 1]
       ELSE /\ coord' = [coord EXCEPT !.pc = "startProducer"]
            /\ UNCHANGED workers
    /\ UNCHANGED <<workerCount, docChan, chanClosed, processedCount,
                   successCount, errorCount, skippedCount, reporter, ticker,
                   embedders, producer, producerErr, stored, sent, received,
                   callVars>>

\* producerWg.Add(1); go func() { ... }()
CoordStartProducer ==
    /\ coord.pc = "startProducer"
    /\ producer' = [producer EXCEPT !.pc = "list"]
    /\ coord' = [coord EXCEPT !.pc = "wgWait"]
    /\ UNCHANGED <<workerCount, docChan, chanClosed, processedCount,
                   successCount, errorCount, skippedCount, reporter, ticker,
                   embedders, workers, producerErr, stored, sent, received,
                   callVars>>

\* Variant: the coordinator goes on as soon as one worker has exited.
CoordWgWaitAny ==
    /\ coord.pc = "wgWait"
    /\ \E w \in WorkerIds : workers[w].pc = "exited"
    /\ ticker' = [ticker EXCEPT !.stopped = TRUE]
    /\ coord' = [coord EXCEPT !.pc = "sendDone"]
    /\ UNCHANGED <<workerCount, docChan, chanClosed, processedCount,
                   successCount, errorCount, skippedCount, reporter,
                   embedders, workers, producer, producerErr, stored, sent,
                   received, callVars>>

\* wg.Wait(); progressTicker.Stop()
CoordWgWait ==
    /\ coord.pc = "wgWait"
    /\ \A w \in WorkerIds : workers[w].pc = "exited"
    /\ ticker' = [ticker EXCEPT !.stopped = TRUE]
    /\ coord' = [coord EXCEPT !.pc = "sendDone"]
    /\ UNCHANGED <<workerCount, docChan, chanClosed, processedCount,
                   successCount, errorCount, skippedCount, reporter,
                   embedders, workers, producer, producerErr, stored, sent,
                   received, callVars>>

\* progressDone <- true  (unbuffered: needs the reporter in its select)
CoordSendDone ==
    /\ coord.pc = "sendDone"
    /\ reporter = "select"
    /\ reporter' = "exited"
    /\ coord' = [coord EXCEPT !.pc = "producerWait"]
    /\ UNCHANGED <<workerCount, docChan, chanClosed, processedCount,
                   successCount, errorCount, skippedCount, ticker,
                   embedders, workers, producer, producerErr, stored, sent,
                   received, callVars>>

\* Variant: worker failures are returned as an error of the pipeline.
CoordFinishWorkerErr ==
    /\ coord.pc = "producerWait"
    /\ producer.pc = "done"
    /\ coord' = [coord EXCEPT
                   !.pc = "returned",
                   !.final = [processed |-> processedCount,
                              success |-> successCount,
                              errors |-> errorCount,
                              skipped |-> skippedCount],
                   !.ret = IF producerErr # "nil" THEN producerErr
                           ELSE IF errorCount > 0 THEN "workerErr" ELSE "nil"]
    /\ embedders' = 0
    /\ UNCHANGED <<workerCount, docChan, chanClosed, processedCount,
                   successCount, errorCount, skippedCount, reporter, ticker,
                   workers, producer, producerErr, stored, sent, received,
                   callVars>>

\* Variant: the pipeline returns nil whatever the producer returned.
CoordFinishNil ==
    /\ coord.pc = "producerWait"
    /\ producer.pc = "done"
    /\ coord' = [coord EXCEPT
                   !.pc = "returned",
                   !.final = [processed |-> processedCount,
                              success |-> successCount,
                              errors |-> errorCount,
                              skipped |-> skippedCount],
                   !.ret = "nil"]
    /\ embedders' = 0
    /\ UNCHANGED <<workerCount, docChan, chanClosed, processedCount,
                   successCount, errorCount, skippedCount, reporter, ticker,
                   workers, producer, producerErr, stored, sent, received,
                   callVars>>

\* producerWg.Wait(); load the four counters; return producerErr or nil
\* (the deferred embedder Close and ticker Stop run on return).
CoordFinish ==
    /\ coord.pc = "producerWait"
    /\ producer.pc = "done"
    /\ coord' = [coord EXCEPT
                   !.pc = "returned",
                   !.final = [processed |-> processedCount,
                              success |-> successCount,
                              errors |-> errorCount,
                              skipped |-> skippedCount],
                   !.ret = IF producerErr # "nil" THEN producerErr ELSE "nil"]
    /\ embedders' = 0
    /\ UNCHANGED <<workerCount, docChan, chanClosed, processedCount,
                   successCount, errorCount, skippedCount, reporter, ticker,
                   workers, producer, producerErr, stored, sent, received,
                   callVars>>

\* --- progress reporter ---------------------------------------------------
\* case <-progressTicker.C: load the four counters and print them.  A tick
\* arrives only while the ticker runs; printing changes no program state.
ReporterTick ==
    /\ reporter = "select"
    /\ ~ticker.stopped
    /\ UNCHANGED vars

\* The same tick, load by load.  Each atomic.LoadInt64 is a step of its own,
\* so workers can count between two loads; the line is printed after the
\* fourth.
SnapUnchanged ==
    UNCHANGED <<pipeVars, call, callsDone, chunkCall, searchCall, addCall,
                batch, pool, ingest, ui, ctx>>

\* Variant: processedCount is loaded last.
ReporterLoadProcessedLast ==
    /\ reporter = "select"
    /\ \/ /\ snap.pc = "select"
          /\ ~ticker.stopped
          /\ snap' = [IdleSnap EXCEPT !.pc = "errors",
                                      !.success = successCount]
       \/ /\ snap.pc = "errors"
          /\ snap' = [snap EXCEPT !.pc = "skipped", !.errors = errorCount]
       \/ /\ snap.pc = "skipped"
          /\ snap' = [snap EXCEPT !.pc = "success", !.skipped = skippedCount]
       \/ /\ snap.pc = "success"
          /\ snap' = [snap EXCEPT !.pc = "select",
                                  !.processed = processedCount,
                                  !.shown = TRUE]
    /\ SnapUnchanged

ReporterLoad ==
    /\ reporter = "select"
    /\ \/ /\ snap.pc = "select"
          /\ ~ticker.stopped
          /\ snap' = [IdleSnap EXCEPT !.pc = "success",
                                      !.processed = processedCount]
       \/ /\ snap.pc = "success"
          /\ snap' = [snap EXCEPT !.pc = "errors", !.success = successCount]
       \/ /\ snap.pc = "errors"
          /\ snap' = [snap EXCEPT !.pc = "skipped", !.errors = errorCount]
       \/ /\ snap.pc = "skipped"
          /\ snap' = [snap EXCEPT !.pc = "select",
                                  !.skipped = skippedCount,
                                  !.shown = TRUE]
    /\ SnapUnchanged

\* A caller hands a ctx that can be cancelled, and cancels it.
CtxLive == "live"
CtxCancelled == "cancelled"

CtxCancel ==
    /\ ctx = CtxLive
    /\ ctx' = CtxCancelled
    /\ UNCHANGED <<pipeVars, call, callsDone, chunkCall, searchCall, addCall,
                   batch, pool, ingest, ui, snap>>

\* case <-ctx.Done(): return
ReporterCtxDone ==
    /\ reporter = "select"
    /\ ctx = CtxCancelled
    /\ reporter' = "exited"
    /\ UNCHANGED <<workerCount, coord, docChan, chanClosed, processedCount,
                   successCount, errorCount, skippedCount, ticker, embedders,
                   workers, producer, producerErr, stored, sent, received,
                   callVars>>

\* progressDone <- true is received only by a reporter that is in its select.
CoordSendDoneInSelect == snap.pc = "select" /\ CoordSendDone

\* --- workers --------------------------------------------------------------
WorkerVarsUnchanged ==
    UNCHANGED <<workerCount, coord, chanClosed, reporter, ticker, embedders,
                producer, producerErr, sent, callVars>>

\* What the worker does with the value EmbedText returned (part_001:195-211):
\* on error count a failure; otherwise doc.Vector = vector and AddDocument,
\* whose check rejects a nil or empty vector before any store call.
AfterEmbed(res) ==
    IF ~res.ok THEN "addError"
    ELSE IF res.n = 0 THEN "addError"
    ELSE "store"

\* The worker's record at its next step; the document is only kept while a
\* later step still uses it.
Goto(wk, pc, vec) ==
    IF pc \in {"sleep", "store"}
    THEN [wk EXCEPT !.pc = pc, !.vec = vec]
    ELSE [IdleWorker EXCEPT !.pc = pc]

\* The loop of EmbedText from the answer r of the attempt numbered attempt:
\* "sleep" (retry delay pending) or the worker's next step.
EmbedStep(r, attempt) ==
    IF r.kind = "err" /\ ShouldRetry(r, attempt)
    THEN [pc |-> "sleep", vec |-> 0]
    ELSE LET res == AttemptReturn("EmbedText", r)
         IN  [pc |-> AfterEmbed(res), vec |-> res.n]

\* Variant: the received document is read but left in the channel.
WorkerRecvPeek(w) ==
    /\ workers[w].pc = "recv"
    /\ IF docChan # <<>>
       THEN LET doc == Head(docChan) IN
            /\ docChan' = docChan
            /\ received' = Append(received, DocId(doc))
            /\ workers' = [workers EXCEPT
                  ![w] = IF doc.len < MinEmbedLen
                         THEN [IdleWorker EXCEPT !.pc = "addSkipped"]
                         ELSE [IdleWorker EXCEPT !.pc = "embed", !.doc = doc]]
       ELSE /\ chanClosed
            /\ workers' = [workers EXCEPT ![w].pc = "exited"]
            /\ UNCHANGED <<docChan, received>>
    /\ UNCHANGED <<processedCount, successCount, errorCount, skippedCount,
                   stored>>
    /\ WorkerVarsUnchanged

\* Variant: a worker that finds the channel empty keeps waiting, closed or not.
WorkerRecvNoExit(w) ==
    /\ workers[w].pc = "recv"
    /\ docChan # <<>>
    /\ LET doc == Head(docChan) IN
       /\ docChan' = Tail(docChan)
       /\ received' = Append(received, DocId(doc))
       /\ workers' = [workers EXCEPT
             ![w] = IF doc.len < MinEmbedLen
                    THEN [IdleWorker EXCEPT !.pc = "addSkipped"]
                    ELSE [IdleWorker EXCEPT !.pc = "embed", !.doc = doc]]
    /\ UNCHANGED <<processedCount, successCount, errorCount, skippedCount,
                   stored>>
    /\ WorkerVarsUnchanged

\* Variant: every received document goes to the embed call, short or not.
WorkerRecvNoSkip(w) ==
    /\ workers[w].pc = "recv"
    /\ IF docChan # <<>>
       THEN LET doc == Head(docChan) IN
            /\ docChan' = Tail(docChan)
            /\ received' = Append(received, DocId(doc))
            /\ workers' = [workers EXCEPT
                  ![w] = [IdleWorker EXCEPT !.pc = "embed", !.doc = doc]]
       ELSE /\ chanClosed
            /\ workers' = [workers EXCEPT ![w].pc = "exited"]
            /\ UNCHANGED <<docChan, received>>
    /\ UNCHANGED <<processedCount, successCount, errorCount, skippedCount,
                   stored>>
    /\ WorkerVarsUnchanged

\* Variant: a worker that finds the channel empty exits, closed or not.
WorkerRecvExitOnEmpty(w) ==
    /\ workers[w].pc = "recv"
    /\ IF docChan # <<>>
       THEN LET doc == Head(docChan) IN
            /\ docChan' = Tail(docChan)
            /\ received' = Append(received, DocId(doc))
            /\ workers' = [workers EXCEPT
                  ![w] = IF doc.len < MinEmbedLen
                         THEN [IdleWorker EXCEPT !.pc = "addSkipped"]
                         ELSE [IdleWorker EXCEPT !.pc = "embed", !.doc = doc]]
       ELSE /\ workers' = [workers EXCEPT ![w].pc = "exited"]
            /\ UNCHANGED <<docChan, received>>
    /\ UNCHANGED <<processedCount, successCount, errorCount, skippedCount,
                   stored>>
    /\ WorkerVarsUnchanged

\* Variant: a worker exits as soon as the channel is closed, drained or not.
WorkerRecvExitOnClose(w) ==
    /\ workers[w].pc = "recv"
    /\ IF chanClosed
       THEN /\ workers' = [workers EXCEPT ![w].pc = "exited"]
            /\ UNCHANGED <<docChan, received>>
       ELSE /\ docChan # <<>>
            /\ LET doc == Head(docChan) IN
               /\ docChan' = Tail(docChan)
               /\ received' = Append(received, DocId(doc))
               /\ workers' = [workers EXCEPT
                     ![w] = IF doc.len < MinEmbedLen
                            THEN [IdleWorker EXCEPT !.pc = "addSkipped"]
                            ELSE [IdleWorker EXCEPT !.pc = "embed", !.doc = doc]]
    /\ UNCHANGED <<processedCount, successCount, errorCount, skippedCount,
                   stored>>
    /\ WorkerVarsUnchanged

\* Variant: a received document is skipped only below 10 code points.
WorkerRecvSkipBelowTen(w) ==
    /\ workers[w].pc = "recv"
    /\ IF docChan # <<>>
       THEN LET doc == Head(docChan) IN
            /\ docChan' = Tail(docChan)
            /\ received' = Append(received, DocId(doc))
            /\ workers' = [workers EXCEPT
                  ![w] = IF doc.len < MinContentLen
                         THEN [IdleWorker EXCEPT !.pc = "addSkipped"]
                         ELSE [IdleWorker EXCEPT !.pc = "embed", !.doc = doc]]
       ELSE /\ chanClosed
            /\ workers' = [workers EXCEPT ![w].pc = "exited"]
            /\ UNCHANGED <<docChan, received>>
    /\ UNCHANGED <<processedCount, successCount, errorCount, skippedCount,
                   stored>>
    /\ WorkerVarsUnchanged

\* for doc := range docChan: receive the next document and test its length
\* (contentLen < 50 -> skip), or leave the loop on a closed, drained channel
\* (then the deferred wg.Done()).
WorkerRecv(w) ==
    /\ workers[w].pc = "recv"
    /\ IF docChan # <<>>
       THEN LET doc == Head(docChan) IN
            /\ docChan' = Tail(docChan)
            /\ received' = Append(received, DocId(doc))
            /\ workers' = [workers EXCEPT
                  ![w] = IF doc.len < MinEmbedLen
                         THEN [IdleWorker EXCEPT !.pc = "addSkipped"]
                         ELSE [IdleWorker EXCEPT !.pc = "embed", !.doc = doc]]
       ELSE /\ chanClosed
            /\ workers' = [workers EXCEPT ![w].pc = "exited"]
            /\ UNCHANGED <<docChan, received>>
    /\ UNCHANGED <<processedCount, successCount, errorCount, skippedCount,
                   stored>>
    /\ WorkerVarsUnchanged

\* Variant: an embed call waits while any worker is in its retry delay.
WorkerEmbedSerialised(w) ==
    /\ workers[w].pc = "embed"
    /\ \A v \in WorkerIds : workers[v].pc # "sleep"
    /\ \E r \in EmbedResponses :
         LET step == EmbedStep(r, 0) IN
         workers' = [workers EXCEPT ![w] = Goto(@, step.pc, step.vec)]
    /\ UNCHANGED <<docChan, received, processedCount, successCount,
                   errorCount, skippedCount, stored>>
    /\ WorkerVarsUnchanged

\* embedder.EmbedText(embeddingText, "RETRIEVAL_DOCUMENT"): the first
\* attempt, up to the retry delay or the return.
WorkerEmbed(w) ==
    /\ workers[w].pc = "embed"
    /\ \E r \in EmbedResponses :
         LET step == EmbedStep(r, 0) IN
         workers' = [workers EXCEPT ![w] = Goto(@, step.pc, step.vec)]
    /\ UNCHANGED <<docChan, received, processedCount, successCount,
                   errorCount, skippedCount, stored>>
    /\ WorkerVarsUnchanged

\* time.Sleep(retryDelay) ends; attempt++ and, while attempt < maxRetries,
\* the next attempt.
WorkerSleep(w) ==
    /\ workers[w].pc = "sleep"
    /\ LET next == workers[w].attempt + 1 IN
       IF next < maxRetries
       THEN \E r \in EmbedResponses :
              LET step == EmbedStep(r, next) IN
              workers' = [workers EXCEPT
                            ![w] = Goto([@ EXCEPT !.attempt = next],
                                        step.pc, step.vec)]
       ELSE workers' = [workers EXCEPT
                          ![w] = Goto(@, AfterEmbed(AfterLoopReturn(<<>>)), 0)]
    /\ UNCHANGED <<docChan, received, processedCount, successCount,
                   errorCount, skippedCount, stored>>
    /\ WorkerVarsUnchanged

\* Variant: a failed store add is counted as a success.
WorkerStoreCountsFailure(w) ==
    /\ workers[w].pc = "store"
    /\ LET doc == workers[w].doc
           rec == [id |-> DocId(doc), len |-> doc.len, vec |-> workers[w].vec]
       IN  \E ok \in BOOLEAN :
             IF ok
             THEN /\ stored' = {s \in stored : s.id # rec.id} \cup {rec}
                  /\ workers' = [workers EXCEPT ![w] = Goto(@, "addSuccess", 0)]
             ELSE /\ workers' = [workers EXCEPT ![w] = Goto(@, "addSuccess", 0)]
                  /\ UNCHANGED stored
    /\ UNCHANGED <<docChan, received, processedCount, successCount,
                   errorCount, skippedCount>>
    /\ WorkerVarsUnchanged

\* store.AddDocument(ctx, doc) past its vector check: collection.Add, which
\* can fail; a record with the same id is replaced.
WorkerStore(w) ==
    /\ workers[w].pc = "store"
    /\ LET doc == workers[w].doc
           rec == [id |-> DocId(doc), len |-> doc.len, vec |-> workers[w].vec]
       IN  \E ok \in BOOLEAN :
             IF ok
             THEN /\ stored' = {s \in stored : s.id # rec.id} \cup {rec}
                  /\ workers' = [workers EXCEPT ![w] = Goto(@, "addSuccess", 0)]
             ELSE /\ workers' = [workers EXCEPT ![w] = Goto(@, "addError", 0)]
                  /\ UNCHANGED stored
    /\ UNCHANGED <<docChan, received, processedCount, successCount,
                   errorCount, skippedCount>>
    /\ WorkerVarsUnchanged

\* atomic.AddInt64(&skippedCount, 1)
WorkerAddSkipped(w) ==
    /\ workers[w].pc = "addSkipped"
    /\ skippedCount' = skippedCount + 1
    /\ workers' = [workers EXCEPT ![w].pc = "addProcessed"]
    /\ UNCHANGED <<docChan, received, processedCount, successCount,
                   errorCount, stored>>
    /\ WorkerVarsUnchanged

\* Variant: the failure path counts the error but not the processed item.
WorkerAddErrorOnly(w) ==
    /\ workers[w].pc = "addError"
    /\ errorCount' = errorCount + 1
    /\ workers' = [workers EXCEPT ![w].pc = "recv"]
    /\ UNCHANGED <<docChan, received, processedCount, successCount,
                   skippedCount, stored>>
    /\ WorkerVarsUnchanged

\* Variant: the failure path returns from the worker instead of continuing.
WorkerAddErrorReturn(w) ==
    /\ workers[w].pc = "addError"
    /\ errorCount' = errorCount + 1
    /\ workers' = [workers EXCEPT ![w].pc = "exited"]
    /\ UNCHANGED <<docChan, received, processedCount, successCount,
                   skippedCount, stored>>
    /\ WorkerVarsUnchanged

\* atomic.AddInt64(&errorCount, 1)
WorkerAddError(w) ==
    /\ workers[w].pc = "addError"
    /\ errorCount' = errorCount + 1
    /\ workers' = [workers EXCEPT ![w].pc = "addProcessed"]
    /\ UNCHANGED <<docChan, received, processedCount, successCount,
                   skippedCount, stored>>
    /\ WorkerVarsUnchanged

\* atomic.AddInt64(&successCount, 1)
WorkerAddSuccess(w) ==
    /\ workers[w].pc = "addSuccess"
    /\ successCount' = successCount + 1
    /\ workers' = [workers EXCEPT ![w].pc = "addProcessed"]
    /\ UNCHANGED <<docChan, received, processedCount, errorCount,
                   skippedCount, stored>>
    /\ WorkerVarsUnchanged

\* atomic.AddInt64(&processedCount, 1); continue
WorkerAddProcessed(w) ==
    /\ workers[w].pc = "addProcessed"
    /\ processedCount' = processedCount + 1
    /\ workers' = [workers EXCEPT ![w] = [IdleWorker EXCEPT !.pc = "recv"]]
    /\ UNCHANGED <<docChan, received, successCount, errorCount,
                   skippedCount, stored>>
    /\ WorkerVarsUnchanged

\* --- producer (loader.FetchAllPagesStream) -------------------------------
ProducerVarsUnchanged ==
    UNCHANGED <<workerCount, coord, processedCount, successCount, errorCount,
                skippedCount, reporter, ticker, embedders, workers, stored,
                received, callVars>>

NextDocPc(pageLeft, hasMore) ==
    IF pageLeft > 0 THEN "fetch" ELSE IF hasMore THEN "list" ELSE "close"

\* One page-list request: fails (abort the stream) or returns n documents
\* and a has-more flag (a page that announces more is not empty; the source
\* lists MaxDocs documents at most).
ProducerList ==
    /\ producer.pc = "list"
    /\ \/ producer' = [producer EXCEPT !.pc = "close", !.ret = "listErr"]
       \/ \E n \in 0..(MaxDocs - producer.docs), more \in BOOLEAN :
            /\ more => (n >= 1 /\ producer.docs + n < MaxDocs)
            /\ producer' = [producer EXCEPT !.pageLeft = n,
                                            !.hasMore = more,
                                            !.pc = NextDocPc(n, more)]
    /\ UNCHANGED <<docChan, chanClosed, producerErr, sent>>
    /\ ProducerVarsUnchanged

\* Fetch one document's content: on failure log it and continue; content
\* shorter than 10 code points is skipped; otherwise chunk it.
ProducerFetch ==
    /\ producer.pc = "fetch"
    /\ LET page == producer.docs + 1
           left == producer.pageLeft - 1
       IN  \/ producer' = [producer EXCEPT !.docs = page, !.pageLeft = left,
                              !.pc = "fetchFailed"]
           \/ \E c \in DocContents :
                IF c.runes < MinContentLen
                THEN producer' = [producer EXCEPT !.docs = page,
                                    !.pageLeft = left,
                                    !.pc = NextDocPc(left, producer.hasMore)]
                ELSE producer' = [producer EXCEPT !.docs = page,
                                    !.pageLeft = left,
                                    !.buf = chunkDocs(page, c),
                                    !.pc = "send"]
    /\ UNCHANGED <<docChan, chanClosed, producerErr, sent>>
    /\ ProducerVarsUnchanged

\* Variant: a failed fetch aborts the stream with an error.
ProducerContinueAbort ==
    /\ producer.pc = "fetchFailed"
    /\ producer' = [producer EXCEPT !.pc = "close", !.ret = "fetchErr"]
    /\ UNCHANGED <<docChan, chanClosed, producerErr, sent>>
    /\ ProducerVarsUnchanged

\* After a failed fetch: continue with the next listed document.
ProducerContinue ==
    /\ producer.pc = "fetchFailed"
    /\ producer' = [producer EXCEPT
                      !.pc = NextDocPc(producer.pageLeft, producer.hasMore)]
    /\ UNCHANGED <<docChan, chanClosed, producerErr, sent>>
    /\ ProducerVarsUnchanged

\* docChan <- doc: blocks while the channel holds cap(docChan) documents.
ProducerSend ==
    /\ producer.pc = "send"
    /\ Len(docChan) < Capacity
    /\ docChan' = Append(docChan, Head(producer.buf))
    /\ sent' = Append(sent, DocId(Head(producer.buf)))
    /\ producer' = [producer EXCEPT
                      !.buf = Tail(@),
                      !.pc = IF Tail(producer.buf) = <<>>
                             THEN NextDocPc(producer.pageLeft, producer.hasMore)
                             ELSE "send"]
    /\ UNCHANGED <<chanClosed, producerErr>>
    /\ ProducerVarsUnchanged

\* close(docChan) at the end of the stream, also after a page-list error.
ProducerClose ==
    /\ producer.pc = "close"
    /\ chanClosed' = TRUE
    /\ producer' = [producer EXCEPT !.pc = "return"]
    /\ UNCHANGED <<docChan, producerErr, sent>>
    /\ ProducerVarsUnchanged

\* producerErr = loader.FetchAllPagesStream(ctx, docChan); producerWg.Done()
ProducerReturn ==
    /\ producer.pc = "return"
    /\ producerErr' = producer.ret
    /\ producer' = [producer EXCEPT !.pc = "done"]
    /\ UNCHANGED <<docChan, chanClosed, sent>>
    /\ ProducerVarsUnchanged

\* ---------------------------------------------------------- specifications
Coordinator ==
    \/ CoordNewEmbedder \/ CoordSpawn \/ CoordStartProducer
    \/ CoordWgWait \/ CoordSendDone \/ CoordFinish

Worker(w) ==
    \/ WorkerRecv(w) \/ WorkerEmbed(w) \/ WorkerSleep(w) \/ WorkerStore(w)
    \/ WorkerAddSkipped(w) \/ WorkerAddError(w) \/ WorkerAddSuccess(w)
    \/ WorkerAddProcessed(w)

Producer ==
    \/ ProducerList \/ ProducerFetch \/ ProducerContinue \/ ProducerSend
    \/ ProducerClose \/ ProducerReturn

Next ==
    \/ Coordinator
    \/ ReporterTick
    \/ \E w \in WorkerIds : Worker(w)
    \/ Producer

Spec == Init /\ [][Next]_vars

\* Remote calls made outside the pipeline (Searcher.Search, searchDocuments).
InitRetry == Init /\ workerCount = 0

NextRetry == (\E fn \in Fns : CallStart(fn)) \/ CallAttempt \/ CallSleep

SpecRetry == InitRetry /\ [][NextRetry]_vars

\* chunkText applied to every text and size within the bounds.
InitChunk ==
    /\ InitPipe /\ workerCount = 0 /\ InitCall
    /\ searchCall = IdleSearchCall /\ addCall = IdleAddCall
    /\ batch = IdleBatch /\ pool = IdlePool /\ InitRest
    /\ chunkCall \in {[IdleChunkCall EXCEPT !.text = t, !.size = n,
                                             !.pc = "call"] :
                         t \in Texts, n \in 1..MaxSize}

SpecChunk == InitChunk /\ [][ChunkTextCall]_vars

\* Store.Search applied to every query vector, topK and store answer.
InitSearch ==
    /\ InitPipe /\ workerCount = 0 /\ InitCall
    /\ chunkCall = IdleChunkCall /\ addCall = IdleAddCall
    /\ batch = IdleBatch /\ pool = IdlePool /\ InitRest
    /\ \E k \in 1..MaxTopK :
         searchCall \in {[IdleSearchCall EXCEPT !.queryVector = v, !.topK = k,
                                                !.answer = a, !.pc = "call"] :
                            v \in {NilVec, 0, VecDim}, a \in StoreAnswers(k)}

SpecSearch == InitSearch /\ [][SearchCall]_vars

\* Store.AddDocument called repeatedly on a collection that starts empty.
InitAdd == Init /\ workerCount = 0

SpecAdd == InitAdd /\ [][AddDocumentCall]_vars

\* Loader.FetchAllPages on every listing within the bounds.
InitBatch ==
    /\ InitPipe /\ workerCount = 0 /\ InitCall
    /\ chunkCall = IdleChunkCall /\ searchCall = IdleSearchCall
    /\ addCall = IdleAddCall /\ pool = IdlePool /\ InitRest
    /\ batch \in {[IdleBatch EXCEPT !.pc = "search", !.listing = l] :
                     l \in Listings}

NextBatch == FetchAllPagesSearch \/ FetchAllPagesPage \/ FetchAllPagesReturn

SpecBatch == InitBatch /\ [][NextBatch]_vars

\* The workers' EmbedText calls on the embedders made for them.
InitPool ==
    /\ InitPipe /\ InitCall
    /\ chunkCall = IdleChunkCall /\ searchCall = IdleSearchCall
    /\ addCall = IdleAddCall /\ batch = IdleBatch /\ InitRest
    /\ pool = [emb |-> [i \in WorkerIds |-> [taskType |-> TaskTypeUnspecified]],
               w |-> [i \in WorkerIds |-> IdlePoolWorker],
               intents |-> {}]

PoolWorker(w) ==
    \/ PoolWorkerStart(w) \/ EmbedTextEnter(w) \/ EmbedTextSetTaskType(w)
    \/ EmbedContent(w) \/ EmbedTextSleep(w) \/ EmbedTextRestore(w)

NextPool == \E w \in WorkerIds : PoolWorker(w)

SpecPool == InitPool /\ [][NextPool]_vars

\* Two runs of the ingestion over the same pages into one database.
InitIngest ==
    /\ InitPipe /\ workerCount = 0 /\ InitCall
    /\ chunkCall = IdleChunkCall /\ searchCall = IdleSearchCall
    /\ addCall = IdleAddCall /\ batch = IdleBatch /\ pool = IdlePool
    /\ ui = IdleUi /\ snap = IdleSnap /\ ctx = CtxBackground
    /\ ingest \in {[IdleIngest EXCEPT !.pc = "run", !.run = 1,
                                       !.docs = fetchAll(l)] :
                      l \in IngestListings}

NextIngest == IngestDoc \/ IngestAgain

SpecIngest == InitIngest /\ [][NextIngest]_vars

\* The interactive search UI from ui.Run on.
InitUi ==
    /\ InitPipe /\ workerCount = 0 /\ InitCall
    /\ chunkCall = IdleChunkCall /\ searchCall = IdleSearchCall
    /\ addCall = IdleAddCall /\ batch = IdleBatch /\ pool = IdlePool
    /\ ingest = IdleIngest /\ snap = IdleSnap /\ ctx = CtxBackground
    /\ ui = [IdleUi EXCEPT !.pc = "running"]

NextUi == UiKey \/ UiSearchResult \/ UiWindowSize

SpecUi == InitUi /\ [][NextUi]_vars

\* The pipeline with the reporter's loads as separate steps.
CoordinatorReport ==
    \/ CoordNewEmbedder \/ CoordSpawn \/ CoordStartProducer
    \/ CoordWgWait \/ CoordSendDoneInSelect \/ CoordFinish

NextReport ==
    \/ CoordinatorReport
    \/ ReporterLoad
    \/ \E w \in WorkerIds : Worker(w)
    \/ Producer

SpecReport == Init /\ [][NextReport]_vars

\* The pipeline called with a ctx that its caller may cancel at any time.
\* Remote calls of workers and producer then fail, which is among their
\* outcomes already.
InitCancel ==
    /\ InitPipe /\ InitCall
    /\ chunkCall = IdleChunkCall /\ searchCall = IdleSearchCall
    /\ addCall = IdleAddCall /\ batch = IdleBatch /\ pool = IdlePool
    /\ ingest = IdleIngest /\ ui = IdleUi /\ snap = IdleSnap
    /\ ctx = CtxLive

NextCancel == Next \/ CtxCancel \/ ReporterCtxDone

SpecCancel == InitCancel /\ [][NextCancel]_vars

\* Scheduling: while some goroutine of the pipeline can take a step, one of
\* them eventually does (Go's scheduler runs runnable goroutines and the
\* remote calls return).  Weaker than fairness to each goroutine.
Progress == Coordinator \/ Producer \/ \E w \in WorkerIds : Worker(w)

Fairness == WF_vars(Progress)

FairSpec == Init /\ [][Next]_vars /\ Fairness

\* ------------------------------------------------------------------ claims
Range(f) == {f[i] : i \in DOMAIN f}
ChanIds == [i \in 1..Len(docChan) |-> DocId(docChan[i])]
NoRepeat(q) == \A i, j \in 1..Len(q) : q[i] = q[j] => i = j
Returned == coord.pc = "returned"
PipelineRan == Returned /\ coord.ret # "initErr"
AllWorkersExited == \A w \in WorkerIds : workers[w].pc = "exited"

\* C1: when the pipeline reads its final statistics, after all workers have
\* exited, processed = succeeded + failed + skipped.
C1_StatsBalance ==
    PipelineRan =>
        /\ coord.final.processed =
             coord.final.success + coord.final.errors + coord.final.skipped
        /\ coord.final.processed = processedCount

C1_Witness ==
    /\ PipelineRan /\ workerCount = 2
    /\ coord.final.success >= 1 /\ coord.final.errors >= 1
    /\ coord.final.skipped >= 1

\* C2: no chunk-document is lost or duplicated between producer and workers:
\* what was sent is what was received followed by what the channel holds, no
\* id is received twice, the channel never holds more than its capacity, and
\* at completion the workers have processed as many items as were produced.
C2_NoLossNoDup ==
    /\ sent = received \o ChanIds
    /\ NoRepeat(received)
    /\ Len(docChan) <= Capacity
    /\ PipelineRan => (received = sent /\ processedCount = Len(sent))

\* the producer is blocked on a full channel after more than a channel-full
\* of items has already gone through
C2_Witness ==
    /\ producer.pc = "send" /\ Capacity > 0 /\ Len(docChan) = Capacity
    /\ Len(sent) > Capacity

\* C3 (as stated): the function returns only after the queue was closed and
\* emptied, every worker has exited and the producer has returned.
C3_ReturnsAfterDrain ==
    Returned => /\ chanClosed /\ docChan = <<>>
                /\ AllWorkersExited
                /\ producer.pc = "done"

\* C3 (amended): a return after the worker pool was started happens only
\* after the queue was closed and emptied, every worker has exited and the
\* producer has returned; on every return no worker is still running; a
\* worker exits only when the queue is closed and drained.
C3_ReturnsAfterDrainOnceStarted ==
    /\ PipelineRan => /\ chanClosed /\ docChan = <<>>
                      /\ AllWorkersExited
                      /\ producer.pc = "done"
    /\ Returned => \A w \in WorkerIds : workers[w].pc \in {"unborn", "exited"}
    /\ \A w \in WorkerIds :
         workers[w].pc = "exited" => (chanClosed /\ docChan = <<>>)

C3_Witness ==
    /\ PipelineRan /\ workerCount = 2 /\ Len(received) >= 2
    /\ AllWorkersExited /\ producer.pc = "done"

\* C4: with at least one worker, a finite stream and remote calls that
\* return, the pipeline eventually returns under fair scheduling.
C4_EventuallyReturns == (workerCount >= 1) => <>Returned

C4_Witness ==
    /\ Returned /\ coord.ret = "nil" /\ workerCount >= 1
    /\ Len(sent) > Capacity /\ processedCount = Len(sent)

\* C5: on every return of the pipeline the progress reporter has been
\* signalled to stop and has received the signal.
C5_ReporterStopped == Returned => reporter = "exited"

\* C6: once the pipeline has run, the return value is the producer's error
\* if the producer failed and nil otherwise, whatever the workers' failures.
C6_ReturnValue ==
    PipelineRan => coord.ret = producer.ret

C6_Witness ==
    /\ PipelineRan /\ coord.ret = "nil"
    /\ errorCount >= 2 /\ errorCount = processedCount

\* --- remote callers ------------------------------------------------------
AllTransient(log) == \A i \in 1..Len(log) : IsTransient(log[i])
CallReturned == call.pc = "returned"

\* C7: a call whose every attempt fails transiently makes exactly 3 attempts
\* and returns the last error wrapped as "max retries exceeded".
C7_MaxRetriesExceeded ==
    (CallReturned /\ AllTransient(call.log)) =>
        /\ Len(call.log) = maxRetries
        /\ ~call.result.ok
        /\ call.result.wrap = "maxRetriesExceeded"
        /\ call.result.cause = call.log[maxRetries].msg

\* C8: a call that fails transiently k times (k in 0..2) and then succeeds
\* returns the success result after k+1 attempts, k delays and k retry
\* notifications numbered 1..k.
C8_RetryThenSuccess ==
    \A k \in 0..(maxRetries - 1) :
      ( /\ CallReturned
        /\ Len(call.log) = k + 1
        /\ call.log[k + 1].kind = "ok"
        /\ AllTransient(SubSeq(call.log, 1, k)) )
      => /\ call.result.ok
         /\ call.result.n >= call.log[k + 1].n
         /\ call.attempt = k
         /\ call.delays = k
         /\ call.notes = [i \in 1..k |-> i]

C8_Witness ==
    /\ CallReturned /\ Len(call.log) = 3 /\ call.log[3].kind = "ok"
    /\ call.result.ok /\ call.delays = 2

\* C9: a fatal error ends the call at once: it is the last attempt of the
\* call, is returned as the cause, and no delay follows it.
C9_FatalImmediate ==
    \A i \in 1..Len(call.log) :
      IsFatal(call.log[i]) =>
        /\ i = Len(call.log)
        /\ CallReturned
        /\ ~call.result.ok /\ call.result.cause = call.log[i].msg
        /\ call.delays = i - 1

C9_Witness ==
    /\ CallReturned /\ Len(call.log) = 3 /\ IsFatal(call.log[3])
    /\ call.delays = 2

\* C10: a failed item does not end its worker: after counting the failure
\* the worker counts the item as processed and receives again; a worker has
\* exited only if the queue is closed and drained; at completion every item
\* sent has been processed.
C10_FailureIsolated ==
    /\ [](\A w \in WorkerIds :
            workers[w].pc = "exited" => (chanClosed /\ docChan = <<>>))
    /\ [](PipelineRan => processedCount = Len(sent))
    /\ [][\A w \in WorkerIds :
            /\ (workers[w].pc = "addError" /\ workers'[w] # workers[w])
                 => workers'[w].pc = "addProcessed"
            /\ (workers[w].pc = "addProcessed" /\ workers'[w] # workers[w])
                 => workers'[w].pc = "recv"]_vars

\* the single worker failed on document 1 and afterwards stored document 2
C10_Witness ==
    /\ workerCount = 1 /\ errorCount >= 1
    /\ <<1, 0>> \in Range(sent)
    /\ \A s \in stored : s.id # <<1, 0>>
    /\ \E s \in stored : s.id = <<2, 0>>

\* --- outcomes per item ----------------------------------------------------
InHand(pcs) == Cardinality({w \in WorkerIds : workers[w].pc \in pcs})
Counters == <<successCount, errorCount, skippedCount, processedCount>>

\* C11: every dequeued item gets exactly one outcome, counted once, and is
\* counted as processed once: an item shorter than 50 code points goes to
\* skipped and every other item to the embed call; the embed call ends in the
\* store add or in failed; the store add ends in succeeded when it added the
\* record and in failed when it did not; each counting step adds exactly 1
\* to its own counter only.  Hence succeeded counts the successful store
\* adds, and the outcome counters sum to processed once nothing is in hand.
C11_OneOutcomePerItem ==
    /\ [](Cardinality(stored) = successCount + InHand({"addSuccess"}))
    /\ [](successCount + errorCount + skippedCount
            = processedCount + InHand({"addProcessed"}))
    /\ [](Len(received)
            = processedCount
              + InHand({"embed", "sleep", "store", "addSkipped", "addError",
                        "addSuccess", "addProcessed"}))
    /\ [][\A w \in WorkerIds :
            LET a == workers[w].pc
                b == workers'[w].pc
            IN  workers'[w] # workers[w] =>
                  /\ (a = "recv" /\ docChan # <<>>) =>
                        /\ b = IF Head(docChan).len < 50
                               THEN "addSkipped" ELSE "embed"
                        /\ Counters' = Counters
                  /\ a \in {"embed", "sleep"} =>
                        /\ b \in {"sleep", "store", "addError"}
                        /\ Counters' = Counters /\ stored' = stored
                  /\ a = "store" =>
                        /\ \/ b = "addSuccess" /\ stored' # stored
                           \/ b = "addError" /\ stored' = stored
                        /\ Counters' = Counters
                  /\ a = "addSkipped" =>
                        /\ b = "addProcessed"
                        /\ Counters' = <<successCount, errorCount,
                                         skippedCount + 1, processedCount>>
                  /\ a = "addError" =>
                        /\ b = "addProcessed"
                        /\ Counters' = <<successCount, errorCount + 1,
                                         skippedCount, processedCount>>
                  /\ a = "addSuccess" =>
                        /\ b = "addProcessed"
                        /\ Counters' = <<successCount + 1, errorCount,
                                         skippedCount, processedCount>>
                  /\ a = "addProcessed" =>
                        /\ b = "recv"
                        /\ Counters' = <<successCount, errorCount,
                                         skippedCount, processedCount + 1>>]_vars

\* one worker gave four items their outcomes: one stored, one failed, two
\* skipped
C11_Witness ==
    /\ PipelineRan /\ workerCount = 1
    /\ successCount = 1 /\ errorCount = 1 /\ skippedCount = 2
    /\ Cardinality(stored) = 1

\* C12: while a worker is in its retry delay, every other worker that has a
\* document to receive, to embed or to store can take that step, and the
\* producer can send whenever the queue is not full.
C12_SleepBlocksNobody ==
    \A w \in WorkerIds :
      workers[w].pc = "sleep" =>
        /\ \A v \in WorkerIds \ {w} :
             /\ (workers[v].pc = "recv" /\ docChan # <<>>)
                   => ENABLED WorkerRecv(v)
             /\ workers[v].pc = "embed" => ENABLED WorkerEmbed(v)
             /\ workers[v].pc = "store" => ENABLED WorkerStore(v)
        /\ (producer.pc = "send" /\ Len(docChan) < Capacity)
              => ENABLED ProducerSend

\* worker 0 is in its second retry delay while worker 1 is about to store
\* and the producer is about to send into a queue with room
C12_Witness ==
    /\ workerCount = 2
    /\ workers[0].pc = "sleep" /\ workers[0].attempt = 1
    /\ workers[1].pc = "store"
    /\ producer.pc = "send" /\ Len(docChan) < Capacity
    /\ skippedCount >= 1

\* --- Store.Search ----------------------------------------------------------
SearchReturned == searchCall.pc = "returned"
SimOf(id) == searchCall.answer.results[id].sim
ReturnedIds == {searchCall.ret.docs[i].id : i \in 1..Len(searchCall.ret.docs)}
StoreAnswered ==
    /\ SearchReturned /\ searchCall.ret.queried /\ ~searchCall.answer.err

\* C13: Search returns no neighbour whose similarity is below 0.70 and keeps
\* every neighbour at 0.70 or above (0.70 itself included); when the store
\* answers and no neighbour reaches 0.70, the result is an empty, non-nil
\* sequence with a nil error.
C13_Threshold ==
    /\ SearchReturned => \A id \in ReturnedIds : SimOf(id) >= 700
    /\ StoreAnswered =>
         /\ \A j \in 1..Len(searchCall.answer.results) :
               SimOf(j) >= 700 => j \in ReturnedIds
         /\ (\A j \in 1..Len(searchCall.answer.results) : SimOf(j) < 700) =>
               /\ searchCall.ret.docs = <<>>
               /\ ~searchCall.ret.nilDocs
               /\ searchCall.ret.err = "nil"

\* three neighbours at 0.701, 0.700 and 0.699: the first two are returned
C13_Witness ==
    /\ StoreAnswered
    /\ Len(searchCall.answer.results) = 3
    /\ SimOf(1) = 701 /\ SimOf(2) = 700 /\ SimOf(3) = 699
    /\ ReturnedIds = {1, 2}

\* --- chunkText -------------------------------------------------------------
RECURSIVE Concat(_)
Concat(chunks) ==
    IF chunks = <<>> THEN <<>> ELSE Head(chunks) \o Concat(Tail(chunks))

ChunkReturned == chunkCall.pc = "returned"
RuneLen(s) == Len(Runes(s))

\* C14: the chunks of a text, concatenated in order, are the text: the code
\* points of the concatenation are the code points of the text, and for a
\* text that is well-formed UTF-8 the concatenation is the text itself.
C14_ConcatIsText ==
    ChunkReturned =>
        /\ Runes(Concat(chunkCall.chunks)) = Runes(chunkCall.text)
        /\ ValidString(chunkCall.text) =>
              Concat(chunkCall.chunks) = chunkCall.text

\* a well-formed text with a two-byte code point, cut after three code
\* points
C14_Witness ==
    /\ ChunkReturned /\ ValidString(chunkCall.text)
    /\ chunkCall.size = 3
    /\ chunkCall.text = <<97, 195, 169, 97, 97>>
    /\ chunkCall.chunks = <<<<97, 195, 169, 97>>, <<97>>>>

\* C15: every chunk has at most size code points, every chunk but the last
\* has exactly size, and a non-empty text of n code points gives
\* ceil(n / size) chunks.
C15_ChunkSizes ==
    ChunkReturned =>
        LET cs   == chunkCall.chunks
            size == chunkCall.size
            n    == RuneLen(chunkCall.text)
        IN  /\ \A k \in 1..Len(cs) : RuneLen(cs[k]) <= size
            /\ \A k \in 1..(Len(cs) - 1) : RuneLen(cs[k]) = size
            /\ chunkCall.text # <<>> => Len(cs) = (n + size - 1) \div size

\* five code points with size 2 give chunks of 2, 2 and 1 code points
C15_Witness ==
    /\ ChunkReturned /\ chunkCall.size = 2
    /\ RuneLen(chunkCall.text) = 5
    /\ [k \in 1..Len(chunkCall.chunks) |-> RuneLen(chunkCall.chunks[k])]
         = <<2, 2, 1>>

\* --- Store.AddDocument -----------------------------------------------------
\* C16 (as stated): all stored records have vectors of one length, and a
\* document whose vector is nil, empty or of another length than the stored
\* vectors is rejected before collection.Add is called, the store unchanged.
C16_FixedDimension ==
    /\ \A r, q \in addCall.store : r.vec = q.vec /\ r.vec > 0
    /\ ( /\ addCall.n > 0
         /\ \/ addCall.doc.vec \in {NilVec, 0}
            \/ \E r \in addCall.before : r.vec # addCall.doc.vec )
       => /\ ~addCall.called
          /\ addCall.err # "nil"
          /\ addCall.store = addCall.before

\* --- queue close and producer failures -------------------------------------
\* C17: the queue is closed once, by a step of the producer that sends
\* nothing afterwards: a close happens only on an open queue, after a close
\* the queue stays closed and nothing more is sent, and a worker exits only
\* from its receive on a closed and empty queue.
C17_ClosedOnceAfterLastSend ==
    /\ [](producer.pc = "close" => ~chanClosed)
    /\ [](chanClosed => producer.pc \in {"return", "done"}
                         /\ producer.buf = <<>>)
    /\ [][chanClosed' # chanClosed =>
            /\ ~chanClosed /\ chanClosed'
            /\ producer.pc = "close" /\ producer'.pc = "return"
            /\ workers' = workers /\ coord' = coord
            /\ docChan' = docChan /\ sent' = sent]_vars
    /\ [][chanClosed => (chanClosed' /\ sent' = sent)]_vars
    /\ [][\A w \in WorkerIds :
            (workers[w].pc # "exited" /\ workers'[w].pc = "exited") =>
               /\ workers[w].pc = "recv"
               /\ chanClosed /\ docChan = <<>>]_vars

\* the queue was closed after three sends and both workers have exited
C17_Witness ==
    /\ chanClosed /\ producer.ret = "nil" /\ Len(sent) >= 3
    /\ workerCount = 2 /\ AllWorkersExited

\* C18: after a page-list failure the producer lists, fetches and sends
\* nothing more and returns that error, which the pipeline returns; a
\* pipeline that ran returns a non-nil value only in that case.
C18_ListFailureAborts ==
    /\ [](producer.ret = "listErr" =>
            /\ producer.pc \in {"close", "return", "done"}
            /\ producer.buf = <<>>)
    /\ [][producer.ret = "listErr" =>
            /\ producer'.ret = "listErr"
            /\ producer'.docs = producer.docs
            /\ sent' = sent]_vars
    /\ [][producer'.ret # producer.ret =>
            producer.pc = "list" /\ producer'.ret = "listErr"]_vars
    /\ [](producer.pc = "done" => producerErr = producer.ret)
    /\ [](PipelineRan =>
            /\ coord.ret \in {"nil", "listErr"}
            /\ coord.ret = "listErr" <=> producer.ret = "listErr")

\* the list request failed at a later cursor, after a document was emitted
\* whose chunk failed in a worker; the pipeline returned the list error
C18_Witness ==
    /\ PipelineRan /\ coord.ret = "listErr"
    /\ producer.docs >= 1 /\ Len(sent) >= 1 /\ errorCount >= 1

\* C19: after a fatal producer error the queue is closed, everything sent
\* before it is received and counted, all workers exit and the pipeline
\* returns the error.
C19_DrainAfterProducerError ==
    (producer.ret = "listErr") ~>
        ( /\ Returned /\ coord.ret = "listErr"
          /\ chanClosed /\ docChan = <<>>
          /\ received = sent /\ processedCount = Len(sent)
          /\ AllWorkersExited )

C19_Witness ==
    /\ Returned /\ coord.ret = "listErr" /\ workerCount = 2
    /\ Len(sent) >= 2 /\ processedCount = Len(sent)
    /\ successCount >= 1

\* C20: a failed document fetch emits no chunk of that document, sets no
\* error, and is followed by the next listed document (or the next page, or
\* the end of the stream); every chunk sent belongs to the document fetched
\* last, so never to a document whose fetch failed.
C20_FetchFailureIsolated ==
    /\ [](producer.pc = "fetchFailed" =>
            /\ producer.buf = <<>>
            /\ producer.ret = "nil"
            /\ \A i \in 1..Len(sent) : sent[i][1] # producer.docs)
    /\ [][(producer.pc = "fetchFailed" /\ producer' # producer) =>
            /\ producer'.pc = IF producer.pageLeft > 0 THEN "fetch"
                              ELSE IF producer.hasMore THEN "list"
                              ELSE "close"
            /\ producer'.ret = "nil"
            /\ producer'.docs = producer.docs
            /\ producer'.buf = <<>>
            /\ sent' = sent]_vars
    /\ [][sent' # sent =>
            /\ producer.pc = "send"
            /\ Head(producer.buf).page = producer.docs
            /\ sent' = Append(sent, DocId(Head(producer.buf)))]_vars

\* the fetch of the first document failed while a second one is listed
C20_Witness ==
    /\ producer.pc = "fetchFailed" /\ producer.docs = 1
    /\ producer.pageLeft = 1 /\ workerCount = 2

\* --- thresholds, ids and order ---------------------------------------------
\* C21: a received item shorter than 50 code points goes straight to the
\* skipped count (no embed call, no store add), is counted as processed and
\* the worker receives again; an item of 50 or more code points goes to the
\* embed call.  So whatever is being embedded or stored has 50 or more.
C21_ShortItemSkipped ==
    /\ [](\A w \in WorkerIds :
            workers[w].pc \in {"embed", "sleep", "store"}
                => workers[w].doc.len >= 50)
    /\ [](\A r \in stored : r.len >= 50)
    /\ [][\A w \in WorkerIds :
            LET a == workers[w].pc
                b == workers'[w].pc
            IN  workers'[w] # workers[w] =>
                  /\ (a = "recv" /\ docChan # <<>>) =>
                        IF Head(docChan).len < 50
                        THEN b = "addSkipped"
                        ELSE b = "embed" /\ workers'[w].doc = Head(docChan)
                  /\ a = "addSkipped" =>
                        /\ b = "addProcessed"
                        /\ skippedCount' = skippedCount + 1
                        /\ stored' = stored
                        /\ successCount' = successCount
                        /\ errorCount' = errorCount
                  /\ a = "addProcessed" => b = "recv"]_vars

\* the single worker stored a chunk, skipped the 20-code-point tail and is
\* about to embed the next document
C21_Witness ==
    /\ workerCount = 1 /\ skippedCount = 1 /\ successCount = 1
    /\ processedCount = 2
    /\ workers[0].pc = "embed" /\ workers[0].doc.len >= 50

\* the chunk indexes sent so far for page p, in sending order
RECURSIVE IdxOf(_, _)
IdxOf(q, p) ==
    IF q = <<>> THEN <<>>
    ELSE IF Head(q)[1] = p THEN <<Head(q)[2]>> \o IdxOf(Tail(q), p)
    ELSE IdxOf(Tail(q), p)

\* C24: the chunks of one document are sent in index order 0, 1, 2, ...
\* without a gap, the channel hands them out in that order, and a document
\* whose chunks were all sent has none left out.
C24_ChunkOrder ==
    /\ \A p \in 1..MaxDocs :
         LET ix == IdxOf(sent, p) IN ix = [k \in 1..Len(ix) |-> k - 1]
    /\ \A p \in 1..MaxDocs :
         LET ix == IdxOf(received \o ChanIds, p)
         IN  ix = [k \in 1..Len(ix) |-> k - 1]
    /\ producer.pc = "send" =>
         /\ Head(producer.buf).idx = Len(IdxOf(sent, producer.docs))
         /\ \A k \in 1..Len(producer.buf) :
               producer.buf[k].idx = Head(producer.buf).idx + k - 1

\* chunk 1 of document 1 already has its outcome while chunk 0, received
\* first, is still waiting in a retry delay
C24_Witness ==
    /\ workerCount = 2
    /\ received = <<<<1, 0>>, <<1, 1>>>>
    /\ \E w \in WorkerIds :
         workers[w].pc = "sleep" /\ DocId(workers[w].doc) = <<1, 0>>
    /\ skippedCount = 1 /\ processedCount = 1

\* C25: the queue never holds more than 2 x workerCount documents, every
\* worker holds at most one, so the documents sent and not yet given an
\* outcome number at most 3 x workerCount; the producer holds the next one.
C25_BoundedBacklog ==
    LET pending == Len(sent) - (successCount + errorCount + skippedCount)
    IN  /\ Len(docChan) <= 2 * workerCount
        /\ pending = Len(docChan)
                      + InHand({"embed", "sleep", "store", "addSkipped",
                                "addError", "addSuccess"})
        /\ pending <= 3 * workerCount

\* queue full, the only worker holding a document, the producer blocked on
\* the next send
C25_Witness ==
    /\ workerCount = 1 /\ Len(docChan) = 2
    /\ workers[0].pc \in {"embed", "sleep", "store"}
    /\ producer.pc = "send"
    /\ Len(sent) - (successCount + errorCount + skippedCount) = 3

\* --- Store.Search: order and validation ------------------------------------
\* C27: the documents Search returns are neighbours the store returned, each
\* once, in the store's order (so by decreasing similarity), and at most
\* topK of them.
C27_OrderPreserved ==
    SearchReturned =>
        LET docs == searchCall.ret.docs
            res  == searchCall.answer.results
        IN  /\ Len(docs) <= searchCall.topK
            /\ \A i \in 1..Len(docs) :
                  \E j \in 1..Len(res) : res[j].id = docs[i].id
            /\ \A i, k \in 1..Len(docs) :
                  i < k =>
                    \E j, l \in 1..Len(res) :
                      /\ j < l
                      /\ res[j].id = docs[i].id /\ res[l].id = docs[k].id
                      /\ res[j].sim >= res[l].sim

\* topK = 3 and three neighbours at or above 0.70: all three come back, in
\* the store's order
C27_Witness ==
    /\ StoreAnswered /\ searchCall.topK = 3
    /\ Len(searchCall.answer.results) = 3
    /\ SimOf(1) = 1000 /\ SimOf(3) = 700
    /\ searchCall.ret.docs = <<[id |-> 1], [id |-> 2], [id |-> 3]>>

\* C28: a nil or empty query vector makes Search return an error without
\* the store's query operation being called, and no documents.
C28_EmptyQueryRejected ==
    (SearchReturned /\ searchCall.queryVector \in {NilVec, 0}) =>
        /\ searchCall.ret.err = "emptyQuery"
        /\ ~searchCall.ret.queried
        /\ searchCall.ret.docs = <<>> /\ searchCall.ret.nilDocs

\* an empty (non-nil) vector, while the store would have answered with a
\* neighbour above the threshold
C28_Witness ==
    /\ SearchReturned /\ searchCall.queryVector = 0
    /\ ~searchCall.answer.err
    /\ Len(searchCall.answer.results) >= 1 /\ SimOf(1) = 1000
    /\ searchCall.ret.err = "emptyQuery"

\* --- chunkText: empty chunks -----------------------------------------------
\* C29: the empty text gives the single chunk "", and a non-empty text
\* gives only non-empty chunks.
C29_EmptyChunkOnlyForEmptyText ==
    ChunkReturned =>
        /\ chunkCall.text = <<>> => chunkCall.chunks = << <<>> >>
        /\ chunkCall.text # <<>> =>
              /\ Len(chunkCall.chunks) >= 1
              /\ \A k \in 1..Len(chunkCall.chunks) :
                    chunkCall.chunks[k] # <<>>

\* a text of exactly two windows: no third, empty chunk follows
C29_Witness ==
    /\ ChunkReturned /\ chunkCall.size = 2
    /\ chunkCall.text = <<97, 97, 97, 97>>
    /\ chunkCall.chunks = << <<97, 97>>, <<97, 97>> >>

\* --- classification of failures --------------------------------------------
\* the explored messages that contain "429", "rate limit", "quota" or
\* "resource exhausted" in any letter case
MarkedMsgs == {Msg429, MsgRateLimit, MsgQuota, MsgExhausted}
\* attempt i was followed by a delay (and, once it elapsed, by attempt i+1)
Retried(i) ==
    \/ i < Len(call.log)
    \/ i = Len(call.log) /\ call.pc \in {"sleep", "call"}

\* C30: a failed attempt is followed by a delay and another attempt exactly
\* when its message contains a marker and it is the first or second
\* attempt; a failure without marker, and any third failure, ends the call.
C30_Classification ==
    /\ \A m \in ErrMsgs : isRateLimit(m) <=> m \in MarkedMsgs
    /\ \A i \in 1..Len(call.log) :
         call.log[i].kind = "err" =>
           /\ IsTransient(call.log[i]) <=> call.log[i].msg \in MarkedMsgs
           /\ IsFatal(call.log[i]) <=> call.log[i].msg \notin MarkedMsgs
           /\ Retried(i) <=> (call.log[i].msg \in MarkedMsgs /\ i < 3)
           /\ ~Retried(i) => (i = Len(call.log) /\ CallReturned
                               /\ ~call.result.ok)
    /\ call.delays = IF call.pc = "call" \/ call.log = <<>>
                     THEN Len(call.log) ELSE Len(call.log) - 1

\* "429" on the first attempt and "QUOTA" on the second: the call is in its
\* second delay
C30_Witness ==
    /\ call.pc = "sleep" /\ Len(call.log) = 2
    /\ call.log[1].msg = Msg429 /\ call.log[2].msg = MsgQuota
    /\ call.delays = 1

\* The documents FetchAllPages has appended for the page with this id.
DocsOfPage(id) == SelectSeq(batch.allDocuments, LAMBDA d : d.parent = id)

\* C22: in FetchAllPages a page whose content has fewer than 10 code points
\* adds no chunk-document and raises no error, and the loop goes on to the
\* next page (the call returns only after the last page); a page whose
\* content has 10 or more code points adds at least one chunk-document.
C22_ShortPageSkipped ==
    /\ \A k \in 1..batch.i :
         LET page == batch.pages[k]
         IN  /\ (page.fetch.ok /\ page.fetch.runes < 10)
                    => DocsOfPage(page.id) = <<>>
             /\ (page.fetch.ok /\ page.fetch.runes >= 10)
                    => Len(DocsOfPage(page.id)) >= 1
    /\ (batch.pc \in {"loop", "returned"} /\ ~batch.listing.err)
           => batch.err = "nil"
    /\ (batch.pc = "returned" /\ ~batch.listing.err)
           => batch.i = Len(batch.listing.pages)

C22_Witness ==
    /\ batch.pc = "returned" /\ Len(batch.pages) = 2
    /\ batch.pages[1].fetch = FetchOk(9, 27)
    /\ batch.pages[2].fetch = FetchOk(10, 10)
    /\ Len(batch.allDocuments) = 1
    /\ batch.allDocuments[1].parent = batch.pages[2].id

\* C23: the n chunk-documents of a page have the ids
\* <page id>-chunk-<index> with index 0..n-1, pairwise distinct, and all
\* have the page's id as parent; no two chunk-documents of one
\* FetchAllPages call share an id.
C23_DistinctIds ==
    /\ \A k \in 1..batch.i :
         LET page == batch.pages[k]
             docs == DocsOfPage(page.id)
         IN  /\ \A a \in 1..Len(docs) :
                    /\ docs[a].id = page.id
                                      \o <<"-", "c", "h", "u", "n", "k", "-">>
                                      \o <<Digits[a]>>
                    /\ docs[a].parent = page.id
             /\ \A a, b \in 1..Len(docs) : docs[a].id = docs[b].id => a = b
    /\ \A a, b \in 1..Len(batch.allDocuments) :
         batch.allDocuments[a].id = batch.allDocuments[b].id => a = b

C23_Witness ==
    /\ batch.pc = "returned" /\ Len(batch.pages) = 2
    /\ batch.pages[1].id = <<"p">>
    /\ batch.pages[2].id = <<"p", "-", "c", "h", "u", "n", "k", "-", "0">>
    /\ Len(DocsOfPage(batch.pages[1].id)) = 3
    /\ Len(DocsOfPage(batch.pages[2].id)) = 2
    /\ Len(batch.allDocuments) = 5

\* C26: worker i calls only embedders[i], so no embedder is used by two
\* workers; an embedder's task type is the document type exactly while its
\* worker is between the set and the restore of an EmbedText call, and
\* every EmbedContent request is made with the document task type.
C26_OwnEmbedder ==
    /\ \A w \in DOMAIN pool.w :
         /\ pool.w[w].pc # "unborn" => pool.w[w].e = w
         /\ \A v \in DOMAIN pool.w :
               (v # w /\ pool.w[v].pc # "unborn" /\ pool.w[w].pc # "unborn")
                   => pool.w[v].e # pool.w[w].e
         /\ pool.emb[w].taskType =
               IF pool.w[w].pc \in {"call", "sleep", "restore"}
               THEN TaskTypeRetrievalDocument ELSE TaskTypeUnspecified
    /\ pool.intents \subseteq {TaskTypeRetrievalDocument}

C26_Witness ==
    /\ workerCount = 2
    /\ pool.w[0].pc = "call" /\ pool.w[0].attempt = 1 /\ pool.w[0].calls = 2
    /\ pool.w[1].pc = "restore"
    /\ pool.intents = {TaskTypeRetrievalDocument}

IsKey(msg) == msg \in Keys

\* C32 (as stated): whatever the state of the UI, the keys q and ctrl+c,
\* and enter on the question "exit", set quitting and issue the quit
\* command, also while a search is in progress.
C32_QuitFromEveryState ==
    /\ ui.msg \in {"ctrl+c", "q"} => (ui.m.quitting /\ ui.cmd = "quit")
    /\ (ui.msg = "enter" /\ TrimSpace(ui.was.question) = Exit)
          => (ui.m.quitting /\ ui.cmd = "quit")

\* C37: at most one search is in flight, and one is in flight exactly while
\* loading is set; enter on a question that is neither blank nor "exit",
\* outside a search, sets loading and issues the search; while loading every
\* key leaves the model as it was and issues no command; the result message
\* clears loading and the question.
C37_OneSearchInFlight ==
    /\ ui.inflight <= 1
    /\ ui.pc = "running" => (ui.m.loading <=> ui.inflight = 1)
    /\ (IsKey(ui.msg) /\ ui.was.loading)
          => (ui.m = ui.was /\ ui.cmd = "nil")
    /\ (ui.msg = "enter" /\ ~ui.was.loading
            /\ TrimSpace(ui.was.question) \notin {<<>>, Exit})
          => (ui.m.loading /\ ui.cmd = "search")
    /\ ui.cmd = "search" => (ui.msg = "enter" /\ ~ui.was.loading)
    /\ ui.msg = "searchResultMsg"
          => (ui.was.loading /\ ~ui.m.loading /\ ui.m.question = <<>>)

C37_Witness ==
    /\ ui.msg = "enter" /\ ui.was.loading /\ ui.m.loading
    /\ ui.inflight = 1 /\ ui.cmd = "nil"
    /\ ui.m.question = <<"i", "t">>
    /\ ui.m.width = 80

OutcomeSum == successCount + errorCount + skippedCount

\* C33: the four counters never decrease; in every state
\* processed <= succeeded + failed + skipped <= processed + workerCount;
\* and a printed snapshot, whose processed value is loaded before the three
\* outcome counters, never shows processed larger than their sum.
C33_CountersAndSnapshot ==
    /\ [][/\ processedCount' >= processedCount
          /\ successCount' >= successCount
          /\ errorCount' >= errorCount
          /\ skippedCount' >= skippedCount]_vars
    /\ [](processedCount <= OutcomeSum)
    /\ [](OutcomeSum <= processedCount + workerCount)
    /\ [](snap.shown
            => snap.processed <= snap.success + snap.errors + snap.skipped)

\* A printed snapshot whose processed is smaller than the sum it shows.
C33_Witness ==
    /\ snap.shown
    /\ snap.processed = 0
    /\ snap.success + snap.errors + snap.skipped = 2
    /\ workerCount = 1

\* C34 (as stated): when ctx is cancelled during a run, the coordinator's
\* stop signal to the reporter is never left blocked: the coordinator is
\* never at progressDone <- true with the reporter gone.
C34_StopSignalNeverBlocked ==
    ~(coord.pc = "sendDone" /\ reporter = "exited")

\* C35: with workerCount = 0 the channel has no buffer and no receiver, so
\* nothing is ever sent: a producer that has a chunk-document to send stays
\* at that send for ever and the coordinator does not return; the
\* coordinator returns only after a producer that sent nothing; and a run
\* ends up either returned or with the producer at its first send.
C35_NoWorkerNoSend ==
    /\ [](workerCount = 0 => (sent = <<>> /\ docChan = <<>>))
    /\ [][(workerCount = 0 /\ producer.pc = "send")
            => (producer' = producer /\ coord'.pc # "returned")]_vars
    /\ []((workerCount = 0 /\ producer.pc = "send") => ~Returned)
    /\ []((workerCount = 0 /\ Returned)
            => (producer.pc = "done" /\ producer.buf = <<>>))
    /\ (workerCount = 0) => <>(Returned \/ producer.pc = "send")

\* the coordinator waits for a producer that is blocked at its first send
C35_Witness ==
    /\ workerCount = 0
    /\ producer.pc = "send" /\ Len(producer.buf) = 2
    /\ coord.pc = "producerWait" /\ reporter = "exited"
    /\ sent = <<>>

\* C36: every stored record has 50 or more code points; a received chunk
\* shorter than that, such as the 20-code-point tail of a longer document,
\* goes to the skipped count and the store is left alone.
C36_StoredAtLeastFifty ==
    /\ [](\A r \in stored : r.len >= 50)
    /\ [][\A w \in WorkerIds :
            (/\ workers[w].pc = "recv" /\ workers'[w] # workers[w]
             /\ docChan # <<>> /\ Head(docChan).len < 50)
               => /\ workers'[w].pc = "addSkipped"
                  /\ stored' = stored
                  /\ DocId(Head(docChan)) \notin {r.id : r \in stored}]_vars
    /\ [][\A w \in WorkerIds :
            (workers[w].pc = "addSkipped" /\ workers'[w] # workers[w])
               => (skippedCount' = skippedCount + 1 /\ stored' = stored)]_vars

\* the run is over: of a document of 1020 code points the first chunk is
\* stored and the tail of 20 was skipped, so the store holds 1000 of them
C36_Witness ==
    /\ PipelineRan /\ workerCount = 1
    /\ sent = <<DocId(ChunkDoc(1, 0, 1000)), DocId(ChunkDoc(1, 1, 20))>>
    /\ received = sent
    /\ stored = {[id |-> DocId(ChunkDoc(1, 0, 1000)), len |-> 1000,
                  vec |-> VecDim]}
    /\ skippedCount = 1 /\ successCount = 1 /\ processedCount = 2

====
